---- MODULE Spec2Model ----
(***************************************************************************)
(* Model of the elitedias price synchroniser.                              *)
(*                                                                         *)
(*   retry_on_fail              src/src/app/shared/decorators.py           *)
(*   CacheData, KeyValueStore   src/src/app/shared/cache_store.py          *)
(*   ElitediasAPIClient         src/src/app/elitedias/api.py               *)
(*   ColSheetModel, RowModel    src/src/app/sheet/models.py                *)
(*   batch_process              src/src/app/processes.py                   *)
(*                                                                         *)
(* Each component has its own specification (SpecRetry, SpecStore, ...):   *)
(* the variables of the other components keep their initial value.         *)
(***************************************************************************)
EXTENDS Integers, Sequences, FiniteSets, TLC

None == "None"

\* ---- retry_on_fail (decorators.py) ----
VARIABLES
    max_retries,    \* the decorator's max_retries
    i,              \* the loop variable of inner()
    rpc,            \* "idle" | "try" | "sleep" | "returned" | "raised"
    calls,          \* invocations of the wrapped func so far
    sleeps,         \* time.sleep(sleep_interval) calls so far
    lastExc,        \* the exception raised by the latest attempt, or NoExc
    raisedExc       \* the exception that left inner(), or NoExc


\* ---- CacheData and the key/value stores (cache_store.py) ----
VARIABLES
    now,            \* datetime.now(), in days
    file,           \* content of <save_dir>/<name>.json: key -> JSON text
    fileExists,     \* whether that file exists
    data,           \* KeyValueStore.data of every store instance
    built,          \* the instances whose __init__ has run
    lastSet,        \* for every key, the record last passed to set()
    lastOp          \* the latest get/set made through an instance

\* ---- ElitediasAPIClient.get_denominations (api.py) ----
VARIABLES
    dpc,            \* "idle" | "posting" | "returned" | "raised"
    dgame,          \* the argument `game` of the call in progress
    dresult,        \* what the call returned, if it returned
    dexc,           \* the exception type the call raised, or None
    upstreamCalls,  \* POSTs to /elitedias_api_denominations made by the call
    dfound,         \* the record store.get(game) gave the call, if any
    dvalid,         \* what cached_data.is_valid() answered, if it was asked
    dstartNow,      \* the time store.get(game) ran
    dstartFile,     \* the store file as the call found it
    dretAt,         \* the time the call returned
    dimmediate      \* the call began when the previous call for the same
                    \* game had just returned, no time having passed

\* ---- ElitediasAPIClient.get_elitedias_game_fields (api.py) ----
VARIABLES
    notesFile,      \* content of data/game_notes.json: game -> notes
    tasks,          \* the get_elitedias_game_fields coroutines not yet finished,
                    \* and the finished ones of the current gather
    gpc,            \* the gather: "idle" | "running" | "returned" | "raised"
    cycle,          \* gathers started so far
    ggames,         \* the games of the current gather
    gstartFile,     \* notesFile when the current gather began
    wasCached       \* games whose notes have been in notesFile at some time

\* ---- ColSheetModel (sheet/models.py) and the worksheet behind it ----
VARIABLES
    cells,          \* the worksheet: A1 address -> text of the cell
    fn,             \* the ColSheetModel classmethod that was called
    cls,            \* the class it was called on: "RowModel" | "DataRow"
    indexes,        \* batch_get: its argument `indexes`
    payloads,       \* the note functions: update_payloads
    rows,           \* batch_update: list_object
    spc,            \* the call: "running" | "flush" | "returned" | "raised"
    result_list,    \* batch_get: result_list
    error_list,     \* batch_get: error_list
    writeReqs,      \* the worksheet.batch_update requests sent, in order,
                    \* each with whether the service applied it
    nLookups,       \* get_worksheet calls made
    nReads,         \* worksheet.batch_get requests sent
    nFailed         \* requests the service answered with an error

\* ---- batch_process (processes.py), the pricing of one row ----
VARIABLES
    game_dict,      \* the catalog: game -> FriElidiasGame
    row_model,      \* the row as batch_get returned it
    priced,         \* the row after the loop body, once it has run
    jpc             \* "idle" | "row" | "done"

\* ---- run_in_loop (main.py) and process (processes.py), the cycles ----
VARIABLES
    ppc,            \* the state of the orchestrator, or "crashed"
    fpc,            \* get_game_dict: "list" | "denoms" | "notes" | "done"
    games,          \* get_game_dict: games
    denominations,  \* get_game_dict: denominations, one map per game so far
    snapshot,       \* process: game_dict, once get_game_dict has returned
    trace,          \* the states entered in this cycle, in order
    failedAt,       \* the vendor calls of get_game_dict that raised in this cycle
    audits,         \* update_sheet_data calls of this cycle
    discoveries,    \* get_run_indexes calls of this cycle
    chunks,         \* the chunks of this cycle that are still to process
    chunksDone,     \* the chunks of this cycle that batch_process finished
    relax,          \* what get_cell_value returned in this cycle, if called
    delay,          \* the argument of the sleep_for that ends the cycle
    prev            \* how the cycle before this one ended

\* ---- split_list (shared/utils.py) ----
VARIABLES
    split_lst,      \* split_list: the argument lst
    split_size,     \* split_list: the argument chunk_size
    split_out,      \* what split_list returned, once it has
    slpc            \* "idle" | "call" | "done"

\* ---- update_sheet_data (processes.py), the audit sheet ----
VARIABLES
    dataCells,      \* the audit worksheet: A1 address -> text of the cell
    audit_dict,     \* update_sheet_data: game_dict of the last call, in order
    data_rows,      \* update_sheet_data: data_rows of the last call
    auditBatch,     \* the batch of the last call's DataRow.batch_update
    auditOk,        \* whether the service applied it
    auditRuns,      \* calls so far
    auditBefore     \* game_dict and batch of the call before the last

\* ---- batch_process after batch_get (processes.py), the write-back ----
VARIABLES
    row_models,     \* batch_process: row_models
    to_be_updated_row_models,
                    \* batch_process: the rows handed to batch_update_price
    codes_grid,     \* the code column of the target sheet, top to bottom
    mapping_dict,   \* find_cell_to_update: row index -> address
    dynReqs,        \* the batches free_style_batch_update has sent
    staticReqs,     \* the batches RowModel.batch_update has sent
    wpc             \* "idle" | "rows" | "find" | "price" | "static" |
                    \* "returned" | "raised"

\* ---- batch_process with its retries (processes.py), the chunks of a cycle ----
VARIABLES
    check_col,      \* get_run_indexes: the check column, top to bottom
    bp_todo,        \* process: the chunks the loop has not finished
    bp_finished,    \* process: the chunks batch_process has returned for
    bpc,            \* "idle" | "read" | "flush" | "dynamic" | "static" |
                    \* "pace" | "sleep" | "done" | "raised"
    bp_i,           \* retry_on_fail around batch_process: i
    bu_i,           \* retry_on_fail around RowModel.batch_update: i
    bp_events,      \* the calls of the current attempt of batch_process
    bp_valid,       \* the rows of the chunk batch_get validated
    bp_reads,       \* worksheet.batch_get calls for the current chunk
    bp_flushes,     \* batch_update_note_message calls for the current chunk
    bp_dynamics,    \* batch_update_price calls for the current chunk
    bp_statics,     \* worksheet.batch_update calls of RowModel.batch_update
                    \* for the current chunk
    bp_otherFails   \* calls other than the static write that raised

\* ---- batch_process on the sheets, attempt by attempt (processes.py) ----
VARIABLES
    at_main,        \* the work sheet: A1 address -> text of the cell
    at_target,      \* the target sheet of the routed rows: address -> text
    at_indexes,     \* batch_process: indexes
    at_start,       \* both sheets when batch_process was called
    at_try,         \* retry_on_fail around batch_process: i
    at_applied,     \* an attempt that raised got past find_cell_to_update
    apc             \* "idle" | "try" | "returned" | "raised"

\* ---- find_cell_to_update, the reads of the code columns (processes.py) ----
VARIABLES
    grp_rows,       \* find_cell_to_update: row_models
    sheet_get_batch_dict,
                    \* find_cell_to_update: sheet id -> sheet name -> ranges
    grp_pending,    \* the sheets of the dict the read loop has not reached
    batchGets,      \* the worksheet.batch_get calls made: sheet and ranges
    fcpc            \* "idle" | "group" | "read" | "resolve" | "raised"

\* ---- get_game_dict then batch_process (processes.py), a failed fetch ----
VARIABLES
    fb_games,       \* games listed by get_available_games
    fb_denoms,      \* `denominations`: one map per game fetched so far
    fb_failed,      \* games whose get_denominations raised in this cycle
    fb_stale,       \* those of them that had a record in the store file
    fb_dict,        \* game_dict
    fb_indexes,     \* indexes of the chunk
    fb_rows,        \* row_models
    fb_main,        \* cells of the work sheet
    fbpc            \* "idle" | "denoms" | "read" | "price" | "static" |
                    \* "written" | "raised" | "aborted"

varsRetry == <<max_retries, i, rpc, calls, sleeps, lastExc, raisedExc>>

varsStore == <<now, file, fileExists, data, built, lastSet, lastOp>>

varsDenom == <<dpc, dgame, dresult, dexc, upstreamCalls, dfound, dvalid,
               dstartNow, dstartFile, dretAt, dimmediate>>

varsNotes == <<notesFile, tasks, gpc, cycle, ggames, gstartFile, wasCached>>

varsSheet == <<cells, fn, cls, indexes, payloads, rows, spc, result_list,
               error_list, writeReqs, nLookups, nReads, nFailed>>

varsJoin == <<game_dict, row_model, priced, jpc>>

varsCycle == <<ppc, fpc, games, denominations, snapshot, trace, failedAt, audits,
               discoveries, chunks, chunksDone, relax, delay, prev>>

varsSplit == <<split_lst, split_size, split_out, slpc>>

varsAudit == <<dataCells, audit_dict, data_rows, auditBatch, auditOk, auditRuns,
               auditBefore>>

varsWrite == <<row_models, to_be_updated_row_models, codes_grid, mapping_dict,
               dynReqs, staticReqs, wpc>>

varsChunk == <<check_col, bp_todo, bp_finished, bpc, bp_i, bu_i, bp_events,
               bp_valid, bp_reads, bp_flushes, bp_dynamics, bp_statics, bp_otherFails>>

varsAttempt == <<at_main, at_target, at_indexes, at_start, at_try, at_applied, apc>>

varsGroup == <<grp_rows, sheet_get_batch_dict, grp_pending, batchGets, fcpc>>

varsFallback == <<fb_games, fb_denoms, fb_failed, fb_stale, fb_dict, fb_indexes, fb_rows, fb_main, fbpc>>

vars == <<varsRetry, varsStore, varsDenom, varsNotes, varsSheet, varsJoin,
          varsCycle,
          varsSplit,
          varsAudit,
          varsWrite,
          varsChunk,
          varsAttempt,
          varsGroup,
          varsFallback>>

\* What the steps of one component leave alone: the other components.
FrameRetry == UNCHANGED <<varsFallback, varsGroup, varsAttempt, varsChunk, varsWrite, varsAudit, varsSplit, varsCycle, varsJoin, varsStore, varsDenom, varsNotes, varsSheet>>

FrameStore == UNCHANGED <<varsFallback, varsGroup, varsAttempt, varsChunk, varsWrite, varsAudit, varsSplit, varsCycle, varsJoin, varsRetry, varsDenom, varsNotes, varsSheet>>

FrameDenom == UNCHANGED <<varsFallback, varsGroup, varsAttempt, varsChunk, varsWrite, varsAudit, varsSplit, varsCycle, varsJoin, varsRetry, varsNotes, varsSheet>>

FrameNotes == UNCHANGED <<varsFallback, varsGroup, varsAttempt, varsChunk, varsWrite, varsAudit, varsSplit, varsCycle, varsJoin, varsRetry, varsStore, varsDenom, varsSheet>>

FrameSheet == UNCHANGED <<varsFallback, varsGroup, varsAttempt, varsChunk, varsWrite, varsAudit, varsSplit, varsCycle, varsJoin, varsStore, varsDenom, varsNotes>>

FrameJoin == UNCHANGED <<varsFallback, varsGroup, varsAttempt, varsChunk, varsWrite, varsAudit, varsSplit, varsCycle, varsRetry, varsStore, varsDenom, varsNotes, varsSheet>>

FrameCycle == UNCHANGED <<varsFallback, varsGroup, varsAttempt, varsChunk, varsWrite, varsAudit, varsSplit, varsStore, varsDenom, varsNotes, varsSheet, varsJoin>>

FrameSplit == UNCHANGED <<varsFallback, varsGroup, varsAttempt, varsChunk, varsWrite, varsAudit, varsRetry, varsStore, varsDenom, varsNotes, varsSheet, varsJoin, varsCycle>>

FrameAudit == UNCHANGED <<varsFallback, varsGroup, varsAttempt, varsChunk, varsWrite, varsRetry, varsStore, varsDenom, varsNotes, varsSheet, varsJoin, varsCycle, varsSplit>>

FrameWrite == UNCHANGED <<varsFallback, varsGroup, varsAttempt, varsChunk, varsRetry, varsStore, varsDenom, varsNotes, varsSheet, varsJoin, varsCycle, varsSplit, varsAudit>>

FrameChunk == UNCHANGED <<varsFallback, varsGroup, varsAttempt, varsRetry, varsStore, varsDenom, varsNotes, varsSheet, varsJoin, varsCycle, varsSplit, varsAudit, varsWrite>>

FrameAttempt == UNCHANGED <<varsFallback, varsGroup, varsRetry, varsStore, varsDenom, varsNotes, varsSheet, varsJoin, varsCycle, varsSplit, varsAudit, varsWrite, varsChunk>>

FrameGroup == UNCHANGED <<varsFallback, varsRetry, varsStore, varsDenom, varsNotes, varsSheet, varsJoin, varsCycle, varsSplit, varsAudit, varsWrite, varsChunk, varsAttempt>>

FrameFallback == UNCHANGED <<varsRetry, varsStore, varsDenom, varsNotes, varsSheet, varsJoin, varsCycle, varsSplit, varsAudit, varsWrite, varsChunk, varsAttempt, varsGroup>>

\* "no exception": the value of an exception slot nothing was raised into.
NoExc == [type |-> None, attempt |-> 0]

(***************************************************************************)
(* Text.  A Python str is the sequence of its pieces, so that formatting   *)
(* (f-strings, str()) is concatenation and strip() removes blanks at both  *)
(* ends.  NoneV stands for Python's None where a str is optional.          *)
(***************************************************************************)
NoneV == <<"<None>">>

Digit == <<"0", "1", "2", "3", "4", "5", "6", "7", "8", "9">>

\* str(n) of an int n >= 0
RECURSIVE IntStr(_)
IntStr(n) ==
    IF n < 10 THEN <<Digit[n + 1]>>
              ELSE IntStr(n \div 10) \o <<Digit[(n % 10) + 1]>>

\* str(x) of a float x >= 0 with one decimal, given in tenths: 50 -> "5.0"
FloatStr(tenths) == IntStr(tenths \div 10) \o <<".">> \o IntStr(tenths % 10)

\* str.strip()
RECURSIVE LStrip(_)
LStrip(t) == IF t # << >> /\ Head(t) = " " THEN LStrip(Tail(t)) ELSE t

RECURSIVE RStrip(_)
RStrip(t) ==
    IF t # << >> /\ t[Len(t)] = " " THEN RStrip(SubSeq(t, 1, Len(t) - 1)) ELSE t

Strip(t) == RStrip(LStrip(t))

\* models.py:181-182  `if isinstance(v, str): v = v.strip()`
StripIfStr(v) == IF v = NoneV THEN NoneV ELSE Strip(v)

\* utils.py:12-16  formated_datetime(datetime.now()): the clock is not followed
Timestamp == <<"dd/mm/YYYY HH:MM:SS">>

\* f"{col}{index}"
A1(col, index) == <<col>> \o IntStr(index)

(***************************************************************************)
(* retry_on_fail (decorators.py:8-24)                                      *)
(***************************************************************************)
\* Largest max_retries the harness is instantiated with.
MaxRetriesBound == 5

\* The kinds of exception the wrapped function may raise.
ExcTypes == {"APIError", "SheetError"}

\* decorators.py:15  `if i == max_retries: raise e`
RetryExhausted_OffByOne(idx, maxr) == idx + 1 >= maxr

RetryExhausted(idx, maxr) == idx = maxr

\* decorators.py:11  `for i in range(max_retries + 1)`
RetryInRange(idx, maxr) == idx < maxr + 1

InitRetry ==
    /\ max_retries \in 0..MaxRetriesBound
    /\ i = 0
    /\ rpc = "try"
    /\ calls = 0
    /\ sleeps = 0
    /\ lastExc = NoExc
    /\ raisedExc = NoExc

IdleRetry ==
    /\ max_retries = 0
    /\ i = 0
    /\ rpc = "idle"
    /\ calls = 0
    /\ sleeps = 0
    /\ lastExc = NoExc
    /\ raisedExc = NoExc

\* decorators.py:12-13: the wrapped function returns; inner() returns its value.
RetryCallReturns ==
    /\ rpc = "try"
    /\ RetryInRange(i, max_retries)
    /\ calls' = calls + 1
    /\ rpc' = "returned"
    /\ UNCHANGED <<max_retries, i, sleeps, lastExc, raisedExc>>
    /\ FrameRetry

\* decorators.py:12-16: the wrapped function raises e; on the last index e is
\* re-raised, otherwise the failure is logged and inner() goes to sleep.
RetryCallRaises ==
    /\ rpc = "try"
    /\ RetryInRange(i, max_retries)
    /\ \E t \in ExcTypes :
        LET e == [type |-> t, attempt |-> calls + 1] IN
        /\ calls' = calls + 1
        /\ lastExc' = e
        /\ IF RetryExhausted(i, max_retries)
              THEN rpc' = "raised" /\ raisedExc' = e
              ELSE rpc' = "sleep" /\ raisedExc' = raisedExc
    /\ UNCHANGED <<max_retries, i, sleeps>>
    /\ FrameRetry

\* decorators.py:20 then the next iteration of the for loop (or its end, where
\* inner() falls through and returns None).
RetrySleep ==
    /\ rpc = "sleep"
    /\ sleeps' = sleeps + 1
    /\ i' = i + 1
    /\ rpc' = IF RetryInRange(i + 1, max_retries) THEN "try" ELSE "returned"
    /\ UNCHANGED <<max_retries, calls, lastExc, raisedExc>>
    /\ FrameRetry

NextRetry ==
    \/ RetryCallReturns
    \/ RetryCallRaises
    \/ RetrySleep

(***************************************************************************)
(* Python values.  A dict is a function whose domain is its key set; an    *)
(* Optional value is a sequence of length 0 (None) or 1.                   *)
(***************************************************************************)
EmptyDict == << >>

DictSet(d, k, v) == (k :> v) @@ d

Nothing == << >>

Some(v) == <<v>>

\* dict.get(key)
DictGet(d, k) == IF k \in DOMAIN d THEN Some(d[k]) ELSE Nothing

(***************************************************************************)
(* CacheData and the key/value stores (cache_store.py)                     *)
(***************************************************************************)
\* The clock stops here.
MaxTime == 9

\* config.py:39  CACHE_VALID: int = 7  # days
CACHE_VALID == 7

\* Store instances alive at the same time on one namespace.
Stores == {1, 2}

\* SKU groups (the keys of both caches).
Games == {<<"G">>, <<"H">>}

\* Denomination maps the vendor may answer with.  A price is a float with one
\* decimal, written in tenths: 50 is 5.0.
Payloads == {(<<"10">> :> 50), (<<"10">> :> 65 @@ <<"20">> :> 120)}

\* cache_store.py:16-17  CacheData.is_valid
is_valid_Inclusive(rec, t) == t - rec.date <= rec.valid

is_valid(rec, t) == t - rec.date < rec.valid

\* BaseModel.model_dump_json of a CacheData: the JSON object as the sequence
\* of its members, in field order.
model_dump_json(rec) ==
    <<"date", rec.date, "valid", rec.valid, "data", rec.data>>

\* BaseModel.model_validate_json for CacheData.
model_validate_json(text) ==
    [date |-> text[2], valid |-> text[4], data |-> text[6]]

\* cache_store.py:35-37  load_data: self.data = json.load(f)
load_data(f) == f

\* cache_store.py:47-49  KeyValueStore.set: the instance's own dict is updated
\* and written out whole.
KVSet(memory, f, k, text) == DictSet(memory, k, text)

\* cache_store.py:72-76  ModelKeyValueStore.get, on the freshly loaded dict
MKVGet(memory, k) ==
    IF k \in DOMAIN memory
        THEN Some(model_validate_json(memory[k]))
        ELSE Nothing

NoOp == [op |-> None, store |-> 0, key |-> NoneV, result |-> Nothing]

InitStore ==
    /\ now = 0
    /\ file = EmptyDict
    /\ fileExists \in BOOLEAN
    /\ data = [s \in Stores |-> EmptyDict]
    /\ built = {}
    /\ lastSet = EmptyDict
    /\ lastOp = NoOp

IdleStore ==
    /\ now = 0
    /\ file = EmptyDict
    /\ fileExists = TRUE
    /\ data = [s \in Stores |-> EmptyDict]
    /\ built = {}
    /\ lastSet = EmptyDict
    /\ lastOp = NoOp

\* cache_store.py:21-30 and 62-70  __init__: load the file, or create it
StoreNew(s) ==
    /\ built' = built \cup {s}
    /\ IF fileExists
          THEN /\ data' = [data EXCEPT ![s] = load_data(file)]
               /\ UNCHANGED <<file, fileExists>>
          ELSE /\ data' = [data EXCEPT ![s] = EmptyDict]
               /\ file' = EmptyDict
               /\ fileExists' = TRUE
    /\ UNCHANGED <<now, lastSet, lastOp>>
    /\ FrameStore

\* cache_store.py:43-45 and 72-76  get: reload, then look the key up
StoreGet(s, k) ==
    /\ s \in built
    /\ data' = [data EXCEPT ![s] = load_data(file)]
    /\ lastOp' = [op |-> "get", store |-> s, key |-> k,
                  result |-> MKVGet(load_data(file), k)]
    /\ UNCHANGED <<now, file, fileExists, built, lastSet>>
    /\ FrameStore

\* cache_store.py:47-49 and 78-79  set
StoreSet(s, k, rec) ==
    /\ s \in built
    /\ data' = [data EXCEPT ![s] = KVSet(data[s], file, k, model_dump_json(rec))]
    /\ file' = data'[s]
    /\ lastSet' = DictSet(lastSet, k, rec)
    /\ lastOp' = [op |-> "set", store |-> s, key |-> k, result |-> Nothing]
    /\ UNCHANGED <<now, fileExists, built>>
    /\ FrameStore

\* The records the store clients write.
StoreRecords == {[date |-> 0, valid |-> CACHE_VALID, data |-> p] : p \in Payloads}

NextStore ==
    \/ \E s \in Stores : StoreNew(s)
    \/ \E s \in Stores, k \in Games : StoreGet(s, k)
    \/ \E s \in Stores, k \in Games, rec \in StoreRecords : StoreSet(s, k, rec)

(***************************************************************************)
(* ElitediasAPIClient.get_denominations (api.py:53-89)                     *)
(***************************************************************************)
\* The store instance that is the call's local variable `store`.
DenomStore == 1

\* TTLs of records an earlier run may have left in the store file: the
\* configured one, and a shorter one from a run configured otherwise.
PriorTtls == {1, CACHE_VALID}

\* Exceptions of httpx: raise_for_status() on a non-2xx answer, and the
\* timeout of client.post(..., timeout=60).
UpstreamExcTypes == {"HTTPStatusError", "TimeoutException"}

\* api.py:61  `if cached_data and cached_data.is_valid()`
CacheHit_IgnoreTtl(cached, t) == cached # Nothing

CacheHit(cached, t) == cached # Nothing /\ is_valid(cached[1], t)

\* api.py:81-87  the CacheData built from the answer
FreshRecord(t, resp) == [date |-> t, valid |-> CACHE_VALID, data |-> resp]

IdleDenom ==
    /\ dpc = "idle"
    /\ dgame = NoneV
    /\ dresult = Nothing
    /\ dexc = None
    /\ upstreamCalls = 0
    /\ dfound = Nothing
    /\ dvalid = Nothing
    /\ dstartNow = 0
    /\ dstartFile = EmptyDict
    /\ dretAt = 0
    /\ dimmediate = FALSE

InitDenom ==
    /\ IdleDenom
    /\ now = 0
    /\ fileExists \in BOOLEAN
    /\ file \in {EmptyDict} \cup
            {(<<"G">> :> model_dump_json([date |-> 0, valid |-> v, data |-> p])) :
                v \in PriorTtls, p \in Payloads}
    /\ file # EmptyDict => fileExists
    /\ data = [s \in Stores |-> EmptyDict]
    /\ built = {}
    /\ lastSet = EmptyDict
    /\ lastOp = NoOp

\* api.py:54-62: build the store, read the record, return it when it is valid.
DenomStart(g) ==
    /\ dpc \in {"idle", "returned", "raised"}
    /\ LET loaded == IF fileExists THEN load_data(file) ELSE EmptyDict
           cached == MKVGet(loaded, g)
       IN  /\ file' = loaded
           /\ fileExists' = TRUE
           /\ built' = built \cup {DenomStore}
           /\ data' = [data EXCEPT ![DenomStore] = loaded]
           /\ dfound' = cached
           /\ dvalid' = IF cached # Nothing
                           THEN Some(is_valid(cached[1], now))
                           ELSE Nothing
           /\ dstartFile' = loaded
           /\ IF CacheHit(cached, now)
                 THEN /\ dpc' = "returned"
                      /\ dresult' = Some(cached[1].data)
                 ELSE /\ dpc' = "posting"
                      /\ dresult' = Nothing
    /\ dgame' = g
    /\ dexc' = None
    /\ upstreamCalls' = 0
    /\ dstartNow' = now
    /\ dretAt' = now
    /\ dimmediate' = (dpc = "returned" /\ dgame = g /\ dretAt = now)
    /\ UNCHANGED <<now, lastSet, lastOp>>
    /\ FrameDenom

\* api.py:64-89: the POST answers 2xx; the answer is stored and returned.
DenomPostOk(resp) ==
    /\ dpc = "posting"
    /\ upstreamCalls' = upstreamCalls + 1
    /\ data' = [data EXCEPT ![DenomStore] =
                  KVSet(data[DenomStore], file, dgame,
                        model_dump_json(FreshRecord(now, resp)))]
    /\ file' = data'[DenomStore]
    /\ dresult' = Some(resp)
    /\ dpc' = "returned"
    /\ dretAt' = now
    /\ UNCHANGED <<now, fileExists, built, lastSet, lastOp, dgame, dexc, dfound,
                   dvalid, dstartNow, dstartFile, dimmediate>>
    /\ FrameDenom

\* api.py:65-77: the POST times out, or raise_for_status() raises.
DenomPostFails(e) ==
    /\ dpc = "posting"
    /\ upstreamCalls' = upstreamCalls + 1
    /\ dexc' = e
    /\ dpc' = "raised"
    /\ UNCHANGED <<varsStore, dgame, dresult, dfound, dvalid, dstartNow,
                   dstartFile, dretAt, dimmediate>>
    /\ FrameDenom

\* A day passes.
Tick ==
    /\ now < MaxTime
    /\ now' = now + 1
    /\ UNCHANGED <<file, fileExists, data, built, lastSet, lastOp>>
    /\ UNCHANGED varsDenom
    /\ FrameDenom

NextDenom ==
    \/ \E g \in Games : DenomStart(g)
    \/ \E resp \in Payloads : DenomPostOk(resp)
    \/ \E e \in UpstreamExcTypes : DenomPostFails(e)
    \/ Tick

(***************************************************************************)
(* ElitediasAPIClient.get_elitedias_game_fields (api.py:91-123), run by    *)
(* asyncio.gather in get_game_dict (processes.py:223-228)                  *)
(***************************************************************************)
\* Gathers (cycles) the model follows.
MaxCycles == 3

\* Notes texts the vendor may answer with.
NotesTexts == {<<"n1">>, <<"n2">>}

IdleNotes ==
    /\ notesFile = EmptyDict
    /\ tasks = {}
    /\ gpc = "idle"
    /\ cycle = 0
    /\ ggames = {}
    /\ gstartFile = EmptyDict
    /\ wasCached = {}

InitNotes ==
    /\ notesFile \in {EmptyDict, (<<"G">> :> <<"n0">>)}
    /\ tasks = {}
    /\ gpc = "idle"
    /\ cycle = 0
    /\ ggames = {}
    /\ gstartFile = EmptyDict
    /\ wasCached = DOMAIN notesFile

\* api.py:92-99: the coroutine up to its first suspension: it reads the whole
\* file into cached_data and returns at once when the game is in it.
NotesTaskStart(g, gen, snap, known) ==
    [game |-> g, gen |-> gen, snap |-> snap,
     pc |-> IF g \in DOMAIN snap THEN "hit" ELSE "posting",
     notes |-> IF g \in DOMAIN snap THEN snap[g] ELSE NoneV,
     cachedBefore |-> g \in known]

\* api.py:119-121: cached_data[game] = notes; the file is rewritten from
\* cached_data, the dict read when the coroutine began.
NotesWrite(current, snap, g, n) == DictSet(snap, g, n)

Finished(t) == t.pc \in {"hit", "written", "raised"}

\* processes.py:224-228: gather wraps each coroutine in a task; every task runs
\* to its first suspension (the POST) before any answer is handled, so all of
\* them read the file before one of them writes it.  Tasks of an earlier gather
\* that raised are not cancelled and go on.
GatherStart(gs) ==
    /\ gpc \in {"idle", "returned", "raised"}
    /\ cycle < MaxCycles
    /\ gs # {}
    /\ LET started == {NotesTaskStart(g, cycle + 1, notesFile, wasCached) : g \in gs}
       IN  /\ tasks' = {t \in tasks : ~Finished(t)} \cup started
           /\ gpc' = IF \A t \in started : Finished(t) THEN "returned" ELSE "running"
    /\ cycle' = cycle + 1
    /\ ggames' = gs
    /\ gstartFile' = notesFile
    /\ UNCHANGED <<notesFile, wasCached>>
    /\ FrameNotes

\* api.py:100-113: the POST answers 2xx; the coroutine goes to sleep(10).
NotesPostOk(t, n) ==
    /\ t \in tasks
    /\ t.pc = "posting"
    /\ tasks' = (tasks \ {t}) \cup {[t EXCEPT !.pc = "sleeping", !.notes = n]}
    /\ UNCHANGED <<notesFile, gpc, cycle, ggames, gstartFile, wasCached>>
    /\ FrameNotes

\* api.py:100-113: the POST fails; gather hands the first exception of its
\* tasks to get_game_dict.
NotesPostFails(t) ==
    /\ t \in tasks
    /\ t.pc = "posting"
    /\ tasks' = (tasks \ {t}) \cup {[t EXCEPT !.pc = "raised"]}
    /\ gpc' = IF t.gen = cycle /\ gpc = "running" THEN "raised" ELSE gpc
    /\ UNCHANGED <<notesFile, cycle, ggames, gstartFile, wasCached>>
    /\ FrameNotes

\* api.py:115-123: sleep(10) is over; the notes are stored and returned.
NotesWake(t) ==
    /\ t \in tasks
    /\ t.pc = "sleeping"
    /\ notesFile' = NotesWrite(notesFile, t.snap, t.game, t.notes)
    /\ wasCached' = wasCached \cup {t.game}
    /\ LET done == [t EXCEPT !.pc = "written"]
           rest == (tasks \ {t}) \cup {done}
       IN  /\ tasks' = rest
           /\ gpc' = IF /\ gpc = "running"
                        /\ t.gen = cycle
                        /\ \A u \in rest : u.gen = cycle => u.pc \in {"hit", "written"}
                       THEN "returned"
                       ELSE gpc
    /\ UNCHANGED <<cycle, ggames, gstartFile>>
    /\ FrameNotes

NextNotes ==
    \/ \E gs \in SUBSET Games : GatherStart(gs)
    \/ \E t \in tasks, n \in NotesTexts : NotesPostOk(t, n)
    \/ \E t \in tasks : NotesPostFails(t)
    \/ \E t \in tasks : NotesWake(t)

(***************************************************************************)
(* The column mapping of the row classes (models.py:412-562)               *)
(***************************************************************************)
Field(n, c, u, nt, r) ==
    [name |-> n, col |-> c, is_update |-> u, is_note |-> nt, required |-> r]

\* models.py:412-507
RowModelSchema == <<
    Field("CHECK",        "B", FALSE, FALSE, TRUE),
    Field("PRODUCT_NAME", "C", FALSE, FALSE, FALSE),
    Field("PACK",         "D", FALSE, FALSE, FALSE),
    Field("GAME_NAME",    "E", FALSE, FALSE, TRUE),
    Field("DENOMINATION", "F", FALSE, FALSE, TRUE),
    Field("PRICE",        "G", TRUE,  FALSE, FALSE),
    Field("GAME_NOTE",    "H", TRUE,  FALSE, FALSE),
    Field("CURRENCY",     "I", TRUE,  FALSE, FALSE),
    Field("NOTE",         "J", TRUE,  TRUE,  FALSE),
    Field("FILL_IN",      "K", FALSE, FALSE, FALSE),
    Field("ID_SHEET",     "L", FALSE, FALSE, FALSE),
    Field("SHEET",        "M", FALSE, FALSE, FALSE),
    Field("COL_NOTE",     "N", FALSE, FALSE, FALSE),
    Field("CODE",         "O", FALSE, FALSE, FALSE),
    Field("COL_CODE",     "P", FALSE, FALSE, FALSE) >>

\* models.py:527-562
DataRowSchema == <<
    Field("STT",          "A", TRUE, FALSE, FALSE),
    Field("Game",         "B", TRUE, FALSE, FALSE),
    Field("Denomination", "C", TRUE, FALSE, FALSE),
    Field("Price",        "D", TRUE, FALSE, FALSE),
    Field("Update_at",    "E", TRUE, FALSE, FALSE) >>

Classes == {"RowModel", "DataRow"}

Schema(c) == IF c = "RowModel" THEN RowModelSchema ELSE DataRowSchema

IsUpdate(f) == f.is_update

IsNote(f) == f.is_note

\* models.py:60-75  mapping_fields: the fields that carry COL_META, in order
mapping_fields(c) == Schema(c)

\* models.py:77-96  updated_mapping_fields
updated_mapping_fields(c) == SelectSeq(Schema(c), IsUpdate)

\* models.py:327-334 (and 288-291): the fields flagged IS_NOTE_META, in order;
\* the first one is the note sink
NoteFields(c) == SelectSeq(Schema(c), IsNote)

FieldNames(c) == {Schema(c)[j].name : j \in 1..Len(Schema(c))}

(***************************************************************************)
(* ColSheetModel.batch_get (models.py:138-198), its pure part              *)
(***************************************************************************)
\* models.py:163-166  query_value
query_value(c, idxs) ==
    LET m  == mapping_fields(c)
        nf == Len(m)
    IN  [q \in 1..(Len(idxs) * nf) |->
            A1(m[((q - 1) % nf) + 1].col, idxs[((q - 1) \div nf) + 1])]

\* ValueRange.first() of every queried range: the cell, or None when empty
query_results(sheet, qv) ==
    [q \in DOMAIN qv |-> IF qv[q] \in DOMAIN sheet THEN sheet[qv[q]] ELSE NoneV]

\* models.py:172-183  model_dict of the p-th index: `count` runs over the
\* results in query order
model_dict(c, idxs, results, p) ==
    LET m  == mapping_fields(c)
        nf == Len(m)
    IN  [index |-> idxs[p],
         f |-> [n \in FieldNames(c) |->
                  LET j == CHOOSE j \in 1..nf : m[j].name = n
                  IN  StripIfStr(results[(p - 1) * nf + j])]]

\* pydantic's model_validate on a model_dict: a field without default must
\* hold a value
model_validate_ok(c, md) ==
    \A j \in 1..Len(Schema(c)) :
        Schema(c)[j].required => md.f[Schema(c)[j].name] # NoneV

\* e.errors(): the names of the fields that are missing, in field order
RECURSIVE MissingText(_, _, _)
MissingText(c, md, j) ==
    IF j > Len(Schema(c)) THEN << >>
    ELSE (IF Schema(c)[j].required /\ md.f[Schema(c)[j].name] = NoneV
             THEN <<Schema(c)[j].name, " Field required; ">>
             ELSE << >>) \o MissingText(c, md, j + 1)

\* models.py:187-191  the NoteMessageUpdatePayload of a row that fails
ValidationPayload(c, md) ==
    [index |-> md.index,
     message |-> Timestamp \o <<" Validation Error at row ">> \o IntStr(md.index)
                 \o <<": ">> \o MissingText(c, md, 1)]

\* models.py:172-192  the loop over indexes, from position p on: the models
\* that validate, in order
RECURSIVE ResultList(_, _, _, _)
ResultList(c, idxs, results, p) ==
    IF p > Len(idxs) THEN << >>
    ELSE LET md == model_dict(c, idxs, results, p)
         IN  (IF model_validate_ok(c, md) THEN <<md>> ELSE << >>)
             \o ResultList(c, idxs, results, p + 1)

\* ... and the payloads of those that do not
RECURSIVE ErrorList(_, _, _, _)
ErrorList(c, idxs, results, p) ==
    IF p > Len(idxs) THEN << >>
    ELSE LET md == model_dict(c, idxs, results, p)
         IN  (IF model_validate_ok(c, md) THEN << >> ELSE <<ValidationPayload(c, md)>>)
             \o ErrorList(c, idxs, results, p + 1)

(***************************************************************************)
(* The batches the write functions build                                   *)
(***************************************************************************)
\* models.py:340-347  batch_update_note_message: one entry per payload, in
\* the note column at the payload's own index
NoteBatch_ByPosition(c, ps) ==
    [p \in 1..Len(ps) |->
        [range |-> A1(NoteFields(c)[1].col, p), value |-> ps[p].message]]

NoteBatch(c, ps) ==
    [p \in 1..Len(ps) |->
        [range |-> A1(NoteFields(c)[1].col, ps[p].index), value |-> ps[p].message]]

\* models.py:221-233  batch_update: for every object, one entry per updatable
\* field, at the field's column and the object's index
UpdateBatch(c, objs) ==
    LET m  == updated_mapping_fields(c)
        nf == Len(m)
    IN  [q \in 1..(Len(objs) * nf) |->
            LET obj == objs[((q - 1) \div nf) + 1]
                fld == m[((q - 1) % nf) + 1]
            IN  [range |-> A1(fld.col, obj.index), value |-> obj.f[fld.name]]]

\* The Sheets service adding each value to what the cell holds.
RECURSIVE ApplyBatch_Append(_, _)
ApplyBatch_Append(sheet, batch) ==
    IF batch = << >> THEN sheet
    ELSE LET e == Head(batch)
             old == IF e.range \in DOMAIN sheet THEN sheet[e.range] ELSE << >>
         IN  ApplyBatch_Append(IF e.value = NoneV THEN sheet
                                  ELSE DictSet(sheet, e.range, old \o e.value),
                               Tail(batch))

\* The Sheets service applying a batch: entries in order; a null value leaves
\* the cell as it is.
RECURSIVE ApplyBatch(_, _)
ApplyBatch(sheet, batch) ==
    IF batch = << >> THEN sheet
    ELSE LET e == Head(batch)
         IN  ApplyBatch(IF e.value = NoneV THEN sheet
                                           ELSE DictSet(sheet, e.range, e.value),
                        Tail(batch))

(***************************************************************************)
(* The ColSheetModel classmethods as steps (models.py:138-353).  One call  *)
(* is followed from its start to its return or raise; the retry_on_fail    *)
(* wrapper of the note functions and of batch_update runs in the variables *)
(* of the retry component.                                                 *)
(***************************************************************************)
\* Rows of the worksheet the calls may address.
MaxRows == 3

\* models.py:201  @retry_on_fail(max_retries=3, sleep_interval=30)
BATCH_UPDATE_RETRIES == 3

\* models.py:270, 311  @retry_on_fail(max_retries=5, sleep_interval=30)
NOTE_RETRIES == 5

\* What a row of the work queue may hold: column -> text.
RowTemplates == {
    ("B" :> <<"1">>) @@ ("E" :> <<"G">>) @@ ("F" :> <<"10">>),
    ("B" :> <<"1">>) @@ ("E" :> <<" ", "G", " ">>) @@ ("F" :> <<"99">>)
        @@ ("J" :> <<"old note">>),
    ("B" :> <<"1">>) @@ ("F" :> <<"10">>),
    EmptyDict }

\* The worksheet whose row r holds tpl[r].
CellsOf(tpl) ==
    LET at == {<<c, r>> : c \in {"B", "E", "F", "J"}, r \in DOMAIN tpl}
        on == {a \in at : a[1] \in DOMAIN tpl[a[2]]}
    IN  [addr \in {A1(a[1], a[2]) : a \in on} |->
            LET a == CHOOSE a \in on : A1(a[1], a[2]) = addr
            IN  tpl[a[2]][a[1]]]

\* The elements of a set of row numbers, ascending.
RECURSIVE Ascending(_)
Ascending(S) ==
    IF S = {} THEN << >>
    ELSE LET m == CHOOSE m \in S : \A x \in S : m <= x
         IN  <<m>> \o Ascending(S \ {m})

SheetFns == {"batch_get", "batch_update", "batch_update_note_message",
             "update_note_message"}

IdleSheet ==
    /\ cells = EmptyDict
    /\ fn = None
    /\ cls = None
    /\ indexes = << >>
    /\ payloads = << >>
    /\ rows = << >>
    /\ spc = "idle"
    /\ result_list = << >>
    /\ error_list = << >>
    /\ writeReqs = << >>
    /\ nLookups = 0
    /\ nReads = 0
    /\ nFailed = 0

\* One call of a classmethod: RowModel.batch_get(indexes) (processes.py:139),
\* RowModel.batch_update(list_object) on the models of the rows
\* (processes.py:173), or a note function on either class.
InitSheet ==
    \E S \in SUBSET (1..MaxRows), f \in SheetFns, c \in Classes :
      \E tpl \in [S -> RowTemplates] :
        /\ f \in {"batch_get", "batch_update"} => c = "RowModel"
        /\ f = "update_note_message" => S # {}
        /\ cells = CellsOf(tpl)
        /\ fn = f
        /\ cls = c
        /\ indexes = Ascending(S)
        /\ rows = IF f = "batch_update"
                     THEN ResultList(c, Ascending(S),
                            query_results(CellsOf(tpl), query_value(c, Ascending(S))), 1)
                     ELSE << >>
        /\ payloads = IF f \in {"batch_update_note_message", "update_note_message"}
                         THEN [p \in 1..Cardinality(S) |->
                                 [index |-> Ascending(S)[p], message |-> <<"message">>]]
                         ELSE << >>
        /\ spc = "running"
        /\ result_list = << >>
        /\ error_list = << >>
        /\ writeReqs = << >>
        /\ nLookups = 0
        /\ nReads = 0
        /\ nFailed = 0
        /\ max_retries = IF f = "batch_update" THEN BATCH_UPDATE_RETRIES ELSE NOTE_RETRIES
        /\ i = 0
        /\ rpc = IF f = "batch_get" THEN "idle" ELSE "try"
        /\ calls = 0
        /\ sleeps = 0
        /\ lastExc = NoExc
        /\ raisedExc = NoExc

\* decorators.py:12-20 around one attempt of the wrapped classmethod: it
\* returned (exc = None) or raised an exception of type exc.
Attempt(exc) ==
    /\ calls' = calls + 1
    /\ IF exc = None
          THEN /\ rpc' = "returned"
               /\ spc' = "returned"
               /\ UNCHANGED <<lastExc, raisedExc>>
          ELSE LET e == [type |-> exc, attempt |-> calls + 1]
               IN  /\ lastExc' = e
                   /\ IF RetryExhausted(i, max_retries)
                         THEN rpc' = "raised" /\ raisedExc' = e /\ spc' = "raised"
                         ELSE rpc' = "sleep" /\ UNCHANGED <<raisedExc, spc>>
    /\ UNCHANGED <<max_retries, i, sleeps>>

\* A worksheet.batch_update(batch) request and the service's answer.
SendBatch(batch, ok) ==
    /\ writeReqs' = Append(writeReqs, [batch |-> batch, ok |-> ok])
    /\ cells' = IF ok THEN ApplyBatch(cells, batch) ELSE cells

\* models.py:154-198  batch_get up to the flush of the error list: get_worksheet,
\* one worksheet.batch_get for all ranges, the models, the error payloads.
BatchGetRead(outcome) ==
    /\ fn = "batch_get"
    /\ spc = "running"
    /\ nLookups' = nLookups + 1
    /\ nReads' = IF outcome = "lookup_error" THEN nReads ELSE nReads + 1
    /\ IF outcome = "ok"
          THEN LET results == query_results(cells, query_value(cls, indexes))
               IN  /\ result_list' = ResultList(cls, indexes, results, 1)
                   /\ error_list' = ErrorList(cls, indexes, results, 1)
                   /\ payloads' = ErrorList(cls, indexes, results, 1)
                   /\ spc' = "flush"
                   /\ max_retries' = NOTE_RETRIES
                   /\ rpc' = "try"
                   /\ UNCHANGED <<raisedExc, nFailed>>
          ELSE /\ spc' = "raised"
               /\ raisedExc' = [type |-> "APIError", attempt |-> 0]
               /\ nFailed' = nFailed + 1
               /\ UNCHANGED <<result_list, error_list, payloads, max_retries, rpc>>
    /\ UNCHANGED <<cells, fn, cls, indexes, rows, writeReqs, i, calls, sleeps, lastExc>>
    /\ FrameSheet

\* models.py:310-353  one attempt of batch_update_note_message, called by
\* batch_get (models.py:194-196) or directly.
BatchUpdateNoteMessageTry(outcome) ==
    /\ \/ fn = "batch_get" /\ spc = "flush"
       \/ fn = "batch_update_note_message" /\ spc = "running"
    /\ rpc = "try"
    /\ RetryInRange(i, max_retries)
    /\ IF NoteFields(cls) = << >>
          THEN /\ outcome = "no_note_field"
               /\ Attempt("SheetError")
               /\ UNCHANGED <<cells, writeReqs, nLookups, nFailed>>
          ELSE /\ outcome \in {"lookup_error", "write_error", "ok"}
               /\ nLookups' = nLookups + 1
               /\ nFailed' = IF outcome = "ok" THEN nFailed ELSE nFailed + 1
               /\ IF outcome = "lookup_error"
                     THEN UNCHANGED <<cells, writeReqs>>
                     ELSE SendBatch(NoteBatch(cls, payloads), outcome = "ok")
               /\ Attempt(IF outcome = "ok" THEN None ELSE "APIError")
    /\ UNCHANGED <<fn, cls, indexes, payloads, rows, result_list, error_list, nReads>>
    /\ FrameSheet

\* models.py:269-308  one attempt of update_note_message(index, messages)
UpdateNoteMessageTry(outcome) ==
    /\ fn = "update_note_message"
    /\ spc = "running"
    /\ rpc = "try"
    /\ RetryInRange(i, max_retries)
    /\ IF NoteFields(cls) = << >>
          THEN /\ outcome = "no_note_field"
               /\ Attempt("SheetError")
               /\ UNCHANGED <<cells, writeReqs, nLookups, nFailed>>
          ELSE /\ outcome \in {"lookup_error", "write_error", "ok"}
               /\ nLookups' = nLookups + 1
               /\ nFailed' = IF outcome = "ok" THEN nFailed ELSE nFailed + 1
               /\ IF outcome = "lookup_error"
                     THEN UNCHANGED <<cells, writeReqs>>
                     ELSE SendBatch(<<[range |-> A1(NoteFields(cls)[1].col,
                                                    payloads[1].index),
                                       value |-> payloads[1].message]>>,
                                    outcome = "ok")
               /\ Attempt(IF outcome = "ok" THEN None ELSE "APIError")
    /\ UNCHANGED <<fn, cls, indexes, payloads, rows, result_list, error_list, nReads>>
    /\ FrameSheet

\* models.py:200-238  one attempt of batch_update: get_worksheet, the batch,
\* and the request when list_object is not empty.
BatchUpdateTry(outcome) ==
    /\ fn = "batch_update"
    /\ spc = "running"
    /\ rpc = "try"
    /\ RetryInRange(i, max_retries)
    /\ outcome \in {"lookup_error", "write_error", "ok"}
    /\ outcome = "write_error" => Len(rows) > 0
    /\ nLookups' = nLookups + 1
    /\ nFailed' = IF outcome = "ok" THEN nFailed ELSE nFailed + 1
    /\ IF outcome # "lookup_error" /\ Len(rows) > 0
          THEN SendBatch(UpdateBatch(cls, rows), outcome = "ok")
          ELSE UNCHANGED <<cells, writeReqs>>
    /\ Attempt(IF outcome = "ok" THEN None ELSE "APIError")
    /\ UNCHANGED <<fn, cls, indexes, payloads, rows, result_list, error_list, nReads>>
    /\ FrameSheet

SheetOutcomes == {"ok", "lookup_error", "read_error", "write_error", "no_note_field"}

NextSheet ==
    \/ \E o \in {"ok", "lookup_error", "read_error"} : BatchGetRead(o)
    \/ \E o \in SheetOutcomes : BatchUpdateNoteMessageTry(o)
    \/ \E o \in SheetOutcomes : UpdateNoteMessageTry(o)
    \/ \E o \in SheetOutcomes : BatchUpdateTry(o)
    \/ RetrySleep

(***************************************************************************)
(* batch_process, the pricing of one row (processes.py:150-164)            *)
(***************************************************************************)
\* elitedias/models.py:23  currency: str = "SGD"
DefaultCurrency == <<"SGD">>

\* processes.py:231-235  FriElidiasGame(game=, notes=, denominations=)
FriElidiasGame(g, denoms, notes) ==
    [game |-> g, denominations |-> denoms, notes |-> notes,
     currency |-> DefaultCurrency]

\* processes.py:151-154
JoinMatches(gd, rm) ==
    /\ rm.f["GAME_NAME"] \in DOMAIN gd
    /\ rm.f["DENOMINATION"] \in DOMAIN gd[rm.f["GAME_NAME"]].denominations

\* processes.py:160
SuccessNote == Timestamp \o <<" Cập nhật thành công">>

\* processes.py:163
InvalidNote(game, denom) ==
    Timestamp \o <<" GAME_NAME: ">> \o game \o <<" hoặc DENOMINATION: ">>
              \o denom \o <<" không hợp lệ">>

\* processes.py:151-164  the body of the loop over row_models
ComputeRow_KeepPrice(gd, rm) ==
    IF JoinMatches(gd, rm)
        THEN LET game == gd[rm.f["GAME_NAME"]]
             IN  [rm EXCEPT !.f["PRICE"] =
                               FloatStr(game.denominations[rm.f["DENOMINATION"]]),
                            !.f["GAME_NOTE"] = game.notes,
                            !.f["CURRENCY"] = game.currency,
                            !.f["NOTE"] = SuccessNote]
        ELSE [rm EXCEPT !.f["NOTE"] =
                            InvalidNote(rm.f["GAME_NAME"], rm.f["DENOMINATION"])]

ComputeRow(gd, rm) ==
    IF JoinMatches(gd, rm)
        THEN LET game == gd[rm.f["GAME_NAME"]]
             IN  [rm EXCEPT !.f["PRICE"] =
                               FloatStr(game.denominations[rm.f["DENOMINATION"]]),
                            !.f["GAME_NOTE"] = game.notes,
                            !.f["CURRENCY"] = game.currency,
                            !.f["NOTE"] = SuccessNote]
        ELSE [rm EXCEPT !.f["NOTE"] =
                            InvalidNote(rm.f["GAME_NAME"], rm.f["DENOMINATION"]),
                        !.f["PRICE"] = << >>]

\* The catalogs get_game_dict may build over the games: a game is absent, or
\* present with a denomination map (empty when its fetch failed) and notes.
CatalogEntries(g) ==
    {FriElidiasGame(g, d, n) : d \in Payloads \cup {EmptyDict},
                                n \in {<<"n">>, <<"m">>}}

Catalogs ==
    {EmptyDict}
    \cup UNION {{(g :> e) : e \in CatalogEntries(g)} : g \in Games}
    \cup {(<<"G">> :> e1) @@ (<<"H">> :> e2) :
              e1 \in CatalogEntries(<<"G">>), e2 \in CatalogEntries(<<"H">>)}

\* The rows batch_get may return: the required fields hold text, the output
\* fields hold what the sheet held.
JoinRows ==
    {[index |-> 2,
      f |-> [n \in FieldNames("RowModel") |->
               CASE n = "CHECK" -> <<"1">>
                 [] n = "GAME_NAME" -> g
                 [] n = "DENOMINATION" -> d
                 [] n \in {"PRICE", "GAME_NOTE", "CURRENCY"} -> old
                 [] OTHER -> NoneV]] :
        g \in Games \cup {<<"X">>},
        d \in {<<"10">>, <<"20">>, <<"99">>},
        old \in {NoneV, <<"old">>}}

IdleJoin ==
    /\ game_dict = EmptyDict
    /\ row_model = [index |-> 0, f |-> EmptyDict]
    /\ priced = [index |-> 0, f |-> EmptyDict]
    /\ jpc = "idle"

InitJoin ==
    /\ game_dict \in Catalogs
    /\ row_model \in JoinRows
    /\ priced = [index |-> 0, f |-> EmptyDict]
    /\ jpc = "row"

\* processes.py:150-164  one iteration of `for row_model in row_models`
PriceRow ==
    /\ jpc = "row"
    /\ priced' = ComputeRow(game_dict, row_model)
    /\ jpc' = "done"
    /\ UNCHANGED <<game_dict, row_model>>
    /\ FrameJoin

NextJoin == PriceRow

(***************************************************************************)
(* run_in_loop (main.py:7-12) and process (processes.py:240-269): the      *)
(* cycles.  Each step is one external call of the cycle (a vendor request, *)
(* a sheet function with its own retries, one attempt of batch_process)    *)
(* together with the code up to the next one; a call returns or raises.    *)
(***************************************************************************)
\* Rows of the work queue that may carry the run flag.
MaxRunRows == 3

\* config.py:21  PROCESS_BATCH_SIZE (set by the environment)
PROCESS_BATCH_SIZE == 2

\* processes.py:132  @retry_on_fail(max_retries=5, sleep_interval=10)
BATCH_PROCESS_RETRIES == 5

\* processes.py:269  `... else 10`
DEFAULT_RELAX_TIME == 10

\* processes.py:243-269  the order of the statements of process()
States == <<"FetchCatalog", "AuditAppend", "DiscoverRunRows", "ProcessBatches",
            "ReadRelaxCell", "Sleep">>

StateAfter_AuditLate(st) ==
    CASE st = "FetchCatalog" -> "DiscoverRunRows"
      [] st = "DiscoverRunRows" -> "ProcessBatches"
      [] st = "ProcessBatches" -> "AuditAppend"
      [] st = "AuditAppend" -> "ReadRelaxCell"
      [] st = "ReadRelaxCell" -> "Sleep"
      [] OTHER -> "FetchCatalog"

StateAfter(st) ==
    CASE st = "FetchCatalog" -> "AuditAppend"
      [] st = "AuditAppend" -> "DiscoverRunRows"
      [] st = "DiscoverRunRows" -> "ProcessBatches"
      [] st = "ProcessBatches" -> "ReadRelaxCell"
      [] st = "ReadRelaxCell" -> "Sleep"
      [] OTHER -> "FetchCatalog"

\* utils.py:19-30  split_list
RECURSIVE split_list_DropShort(_, _)
split_list_DropShort(lst, chunk_size) ==
    IF Len(lst) < chunk_size THEN << >>
    ELSE <<SubSeq(lst, 1, chunk_size)>>
         \o split_list_DropShort(SubSeq(lst, chunk_size + 1, Len(lst)), chunk_size)

RECURSIVE split_list(_, _)
split_list(lst, chunk_size) ==
    IF lst = << >> THEN << >>
    ELSE IF Len(lst) <= chunk_size THEN <<lst>>
    ELSE <<SubSeq(lst, 1, chunk_size)>>
         \o split_list(SubSeq(lst, chunk_size + 1, Len(lst)), chunk_size)

\* processes.py:216-221 within 206-237: the one try/except of get_game_dict
\* is around get_denominations and names HTTPStatusError.
Caught_AnyStep(step, e) == e = "HTTPStatusError"

Caught(step, e) == step = "denoms" /\ e = "HTTPStatusError"

\* main.py:11  `except Exception`: every exception the cycle raises
CycleExcTypes == UpstreamExcTypes \cup {"APIError", "ValueError"}

DriverCatches_UpstreamOnly(e) == e \in UpstreamExcTypes

DriverCatches(e) == e \in CycleExcTypes

\* What the vendor lists (api.py:33-51).
GameLists == {<< >>, <<(<<"G">>)>>, <<(<<"G">>), (<<"H">>)>>}

\* What the vendor answers for the denominations of a game (api.py:79).
VendorAnswer(g) ==
    IF g = <<"G">> THEN (<<"10">> :> 50) ELSE (<<"10">> :> 65 @@ <<"20">> :> 120)

\* A cell as values_get(UNFORMATTED_VALUE) renders it (models.py:399-409):
\* nothing, a number, or text.
Blank == [kind |-> "none", num |-> 0, text |-> << >>]

NumCell(n) == [kind |-> "num", num |-> n, text |-> << >>]

StrCell(t) == [kind |-> "str", num |-> 0, text |-> t]

RelaxCells == {Blank, NumCell(0), NumCell(30), StrCell(<<"4", "5">>),
               StrCell(<<" ", "7">>), StrCell(<<"a", "b", "c">>), StrCell(<< >>)}

\* bool(x) of what get_cell_value returns (processes.py:269 `if str_relax_time`)
CellTruthy(c) ==
    CASE c.kind = "none" -> FALSE
      [] c.kind = "num" -> c.num # 0
      [] OTHER -> c.text # << >>

IsDigit(ch) == \E d \in 1..10 : Digit[d] = ch

DigitValue(ch) == (CHOOSE d \in 1..10 : Digit[d] = ch) - 1

RECURSIVE DigitsValue(_)
DigitsValue(t) ==
    IF t = << >> THEN 0
    ELSE 10 * DigitsValue(SubSeq(t, 1, Len(t) - 1)) + DigitValue(t[Len(t)])

\* float(x): a number is itself; text is stripped and must then be digits,
\* otherwise ValueError (Nothing here).
Float(c) ==
    IF c.kind = "num" THEN Some(c.num)
    ELSE LET t == Strip(c.text)
         IN  IF t # << >> /\ \A k \in 1..Len(t) : IsDigit(t[k])
                THEN Some(DigitsValue(t))
                ELSE Nothing

\* The vendor call of a step of get_game_dict raised (for "denoms": the call
\* for the game at position pos of games).
Failure(step, pos) == [step |-> step, pos |-> pos]

\* The cycle before the first one.
NoCycle ==
    [exc |-> None, at |-> None, trace |-> << >>, failedAt |-> {}, audits |-> 0,
     discoveries |-> 0, chunksDone |-> 0, chunksLeft |-> 0, calls |-> 0,
     sleeps |-> 0, relax |-> Nothing, delay |-> Nothing, logged |-> FALSE]

\* The retry wrapper of batch_process at the start of a call, or at rest.
RetryArm(armed) ==
    /\ max_retries' = IF armed THEN BATCH_PROCESS_RETRIES ELSE 0
    /\ i' = 0
    /\ rpc' = IF armed THEN "try" ELSE "idle"
    /\ calls' = 0
    /\ sleeps' = 0
    /\ lastExc' = NoExc
    /\ raisedExc' = NoExc

\* process() moves on to its next statement.
Enter(st) ==
    /\ ppc' = st
    /\ trace' = Append(trace, st)

IdleCycle ==
    /\ ppc = "idle"
    /\ fpc = "idle"
    /\ games = << >>
    /\ denominations = << >>
    /\ snapshot = EmptyDict
    /\ trace = << >>
    /\ failedAt = {}
    /\ audits = 0
    /\ discoveries = 0
    /\ chunks = << >>
    /\ chunksDone = 0
    /\ relax = Nothing
    /\ delay = Nothing
    /\ prev = NoCycle

\* main.py:8-10  the first `await process()`
InitCycle ==
    /\ ppc = "FetchCatalog"
    /\ fpc = "list"
    /\ games = << >>
    /\ denominations = << >>
    /\ snapshot = EmptyDict
    /\ trace = <<"FetchCatalog">>
    /\ failedAt = {}
    /\ audits = 0
    /\ discoveries = 0
    /\ chunks = << >>
    /\ chunksDone = 0
    /\ relax = Nothing
    /\ delay = Nothing
    /\ prev = NoCycle
    /\ IdleRetry

\* A driver that paces after every cycle, failed ones too.
EndCycle_PacedAlways(e, at, failed, ncalls, nsleeps, rx, dl) ==
    /\ prev' = [exc |-> e, at |-> at, trace |-> trace, failedAt |-> failed,
                audits |-> audits, discoveries |-> discoveries,
                chunksDone |-> chunksDone, chunksLeft |-> Len(chunks),
                calls |-> ncalls, sleeps |-> nsleeps, relax |-> rx, delay |-> IF e # None THEN Some(DEFAULT_RELAX_TIME) ELSE dl,
                logged |-> (e # None /\ DriverCatches(e))]
    /\ IF e = None \/ DriverCatches(e)
          THEN /\ ppc' = "FetchCatalog"
               /\ fpc' = "list"
               /\ trace' = <<"FetchCatalog">>
          ELSE /\ ppc' = "crashed"
               /\ fpc' = "idle"
               /\ trace' = << >>
    /\ games' = << >>
    /\ denominations' = << >>
    /\ snapshot' = EmptyDict
    /\ failedAt' = {}
    /\ audits' = 0
    /\ discoveries' = 0
    /\ chunks' = << >>
    /\ chunksDone' = 0
    /\ relax' = Nothing
    /\ delay' = Nothing
    /\ RetryArm(FALSE)

\* main.py:8-12  process() returned (e = None) or raised e at step `at`, having
\* failed at the steps `failed`, after ncalls attempts and nsleeps sleeps of
\* the chunk it was in, with rx read and dl slept: the driver logs what it
\* catches and calls process() again.
EndCycle(e, at, failed, ncalls, nsleeps, rx, dl) ==
    /\ prev' = [exc |-> e, at |-> at, trace |-> trace, failedAt |-> failed,
                audits |-> audits, discoveries |-> discoveries,
                chunksDone |-> chunksDone, chunksLeft |-> Len(chunks),
                calls |-> ncalls, sleeps |-> nsleeps, relax |-> rx, delay |-> dl,
                logged |-> (e # None /\ DriverCatches(e))]
    /\ IF e = None \/ DriverCatches(e)
          THEN /\ ppc' = "FetchCatalog"
               /\ fpc' = "list"
               /\ trace' = <<"FetchCatalog">>
          ELSE /\ ppc' = "crashed"
               /\ fpc' = "idle"
               /\ trace' = << >>
    /\ games' = << >>
    /\ denominations' = << >>
    /\ snapshot' = EmptyDict
    /\ failedAt' = {}
    /\ audits' = 0
    /\ discoveries' = 0
    /\ chunks' = << >>
    /\ chunksDone' = 0
    /\ relax' = Nothing
    /\ delay' = Nothing
    /\ RetryArm(FALSE)

\* What a raise leaves of the cycle's variables when it is caught in place.
CycleKeeps == UNCHANGED <<audits, discoveries, chunks, chunksDone, relax, delay,
                          prev, varsRetry>>

\* processes.py:230-237  the catalog of the games, their notes and maps
BuildGameDict(gs, notes, denoms) ==
    [g \in {gs[k] : k \in 1..Len(gs)} |->
        LET k == CHOOSE k \in 1..Len(gs) : gs[k] = g
        IN  FriElidiasGame(g, denoms[k], notes[k])]

\* What an external call may do: return one of `values`, or raise one of
\* `excs` (the `value` of a raise is a filler of the values' type).
Outcomes(values, excs, filler) ==
    {[exc |-> None, value |-> v] : v \in values}
    \cup {[exc |-> e, value |-> filler] : e \in excs}

\* processes.py:210  await get_available_games()
ListGames(outcome) ==
    /\ ppc = "FetchCatalog" /\ fpc = "list"
    /\ \/ /\ outcome.exc = None
          /\ games' = outcome.value
          /\ fpc' = IF outcome.value = << >> THEN "notes" ELSE "denoms"
          /\ UNCHANGED <<ppc, trace, failedAt, denominations, snapshot>>
          /\ CycleKeeps
       \/ /\ outcome.exc # None
          /\ IF Caught("list", outcome.exc)
                THEN /\ games' = << >>
                     /\ fpc' = "notes"
                     /\ failedAt' = failedAt \cup {Failure("list", 0)}
                     /\ UNCHANGED <<ppc, trace, denominations, snapshot>>
                     /\ CycleKeeps
                ELSE EndCycle(outcome.exc, "list", failedAt \cup {Failure("list", 0)}, 0, 0,
                              Nothing, Nothing)
    /\ FrameCycle

\* processes.py:214-221  one iteration of the loop over games
FetchDenominations(outcome) ==
    /\ ppc = "FetchCatalog" /\ fpc = "denoms"
    /\ Len(denominations) < Len(games)
    /\ \/ /\ outcome.exc = None
          /\ outcome.value = VendorAnswer(games[Len(denominations) + 1])
          /\ denominations' = Append(denominations, outcome.value)
          /\ fpc' = IF Len(denominations) + 1 = Len(games) THEN "notes" ELSE "denoms"
          /\ UNCHANGED <<ppc, trace, failedAt, games, snapshot>>
          /\ CycleKeeps
       \/ /\ outcome.exc # None
          /\ IF Caught("denoms", outcome.exc)
                THEN /\ denominations' = Append(denominations, EmptyDict)
                     /\ fpc' = IF Len(denominations) + 1 = Len(games)
                                  THEN "notes" ELSE "denoms"
                     /\ failedAt' = failedAt \cup {Failure("denoms", Len(denominations) + 1)}
                     /\ UNCHANGED <<ppc, trace, games, snapshot>>
                     /\ CycleKeeps
                ELSE EndCycle(outcome.exc, "denoms", failedAt \cup {Failure("denoms", Len(denominations) + 1)}, 0, 0,
                              Nothing, Nothing)
    /\ FrameCycle

\* processes.py:223-237  the gather of get_elitedias_game_fields, then the
\* catalog; get_game_dict returns and process() goes on (processes.py:243-246)
GatherNotes(outcome) ==
    /\ ppc = "FetchCatalog" /\ fpc = "notes"
    /\ \/ /\ outcome.exc = None
          /\ snapshot' = BuildGameDict(games, [k \in 1..Len(games) |-> <<"n">>],
                                       denominations)
          /\ fpc' = "done"
          /\ Enter(StateAfter("FetchCatalog"))
          /\ UNCHANGED <<failedAt, games, denominations>>
          /\ CycleKeeps
       \/ /\ outcome.exc # None
          /\ games # << >>
          /\ IF Caught("notes", outcome.exc)
                THEN /\ snapshot' = BuildGameDict(games,
                                       [k \in 1..Len(games) |-> << >>], denominations)
                     /\ fpc' = "done"
                     /\ Enter(StateAfter("FetchCatalog"))
                     /\ failedAt' = failedAt \cup {Failure("notes", 0)}
                     /\ UNCHANGED <<games, denominations>>
                     /\ CycleKeeps
                ELSE EndCycle(outcome.exc, "notes", failedAt \cup {Failure("notes", 0)}, 0, 0,
                              Nothing, Nothing)
    /\ FrameCycle

\* processes.py:246  update_sheet_data(game_dict): DataRow.batch_update returns,
\* or raises once its retries are spent
AuditAppend(outcome) ==
    /\ ppc = "AuditAppend"
    /\ \/ /\ outcome.exc = None
          /\ audits' = audits + 1
          /\ Enter(StateAfter("AuditAppend"))
          /\ UNCHANGED <<fpc, games, denominations, snapshot, failedAt,
                         discoveries, chunks, chunksDone, relax, delay, prev,
                         varsRetry>>
       \/ /\ outcome.exc # None
          /\ EndCycle(outcome.exc, "audit", failedAt, 0, 0, Nothing, Nothing)
    /\ FrameCycle

\* processes.py:251-257  get_run_indexes and the split into chunks
DiscoverRunRows(outcome) ==
    /\ ppc = "DiscoverRunRows"
    /\ \/ /\ outcome.exc = None
          /\ discoveries' = discoveries + 1
          /\ chunks' = split_list(Ascending(outcome.value), PROCESS_BATCH_SIZE)
          /\ Enter(StateAfter("DiscoverRunRows"))
          /\ RetryArm(outcome.value # {})
          /\ UNCHANGED <<fpc, games, denominations, snapshot, failedAt, audits,
                         chunksDone, relax, delay, prev>>
       \/ /\ outcome.exc # None
          /\ EndCycle(outcome.exc, "discover", failedAt, 0, 0, Nothing, Nothing)
    /\ FrameCycle

\* processes.py:257-261 with 132-179 and decorators.py:11-20: one attempt of
\* batch_process on the first chunk that is left
BatchProcessTry(outcome) ==
    /\ ppc = "ProcessBatches"
    /\ chunks # << >>
    /\ rpc = "try"
    /\ RetryInRange(i, max_retries)
    /\ \/ /\ outcome.exc = None
          /\ chunks' = Tail(chunks)
          /\ chunksDone' = chunksDone + 1
          /\ RetryArm(Tail(chunks) # << >>)
          /\ UNCHANGED <<ppc, fpc, games, denominations, snapshot, trace,
                         failedAt, audits, discoveries, relax, delay, prev>>
       \/ /\ outcome.exc # None
          /\ IF RetryExhausted(i, max_retries)
                THEN EndCycle(outcome.exc, "chunk", failedAt, calls + 1, sleeps,
                              Nothing, Nothing)
                ELSE /\ rpc' = "sleep"
                     /\ calls' = calls + 1
                     /\ lastExc' = [type |-> outcome.exc, attempt |-> calls + 1]
                     /\ UNCHANGED <<max_retries, i, sleeps, raisedExc>>
                     /\ UNCHANGED varsCycle
    /\ FrameCycle

\* processes.py:257  the loop over the chunks is exhausted
ProcessBatchesEnd ==
    /\ ppc = "ProcessBatches"
    /\ chunks = << >>
    /\ Enter(StateAfter("ProcessBatches"))
    /\ UNCHANGED <<fpc, games, denominations, snapshot, failedAt, audits,
                   discoveries, chunks, chunksDone, relax, delay, prev,
                   varsRetry>>
    /\ FrameCycle

\* processes.py:263-269  get_cell_value, then the argument of sleep_for:
\* `float(str_relax_time) if str_relax_time else 10`
ReadRelaxCell(outcome) ==
    /\ ppc = "ReadRelaxCell"
    /\ \/ /\ outcome.exc = None
          /\ IF ~CellTruthy(outcome.value)
                THEN /\ relax' = Some(outcome.value)
                     /\ delay' = Some(DEFAULT_RELAX_TIME)
                     /\ Enter(StateAfter("ReadRelaxCell"))
                     /\ UNCHANGED <<fpc, games, denominations, snapshot, failedAt,
                                    audits, discoveries, chunks, chunksDone,
                                    prev, varsRetry>>
                ELSE IF Float(outcome.value) # Nothing
                THEN /\ relax' = Some(outcome.value)
                     /\ delay' = Float(outcome.value)
                     /\ Enter(StateAfter("ReadRelaxCell"))
                     /\ UNCHANGED <<fpc, games, denominations, snapshot, failedAt,
                                    audits, discoveries, chunks, chunksDone,
                                    prev, varsRetry>>
                ELSE EndCycle("ValueError", "relax", failedAt, 0, 0,
                              Some(outcome.value), Nothing)
       \/ /\ outcome.exc # None
          /\ EndCycle(outcome.exc, "relax", failedAt, 0, 0, Nothing, Nothing)
    /\ FrameCycle

\* processes.py:269 and main.py:8-10  sleep_for returns, process() returns,
\* the driver calls it again
SleepDone ==
    /\ ppc = "Sleep"
    /\ EndCycle(None, None, failedAt, 0, 0, relax, delay)
    /\ FrameCycle

NextCycle ==
    \/ \E o \in Outcomes(GameLists, UpstreamExcTypes, << >>) : ListGames(o)
    \/ \E o \in Outcomes(Payloads, UpstreamExcTypes, EmptyDict) : FetchDenominations(o)
    \/ \E o \in Outcomes({"ok"}, UpstreamExcTypes, "ok") : GatherNotes(o)
    \/ \E o \in Outcomes({"ok"}, {"APIError"}, "ok") : AuditAppend(o)
    \/ \E o \in Outcomes(SUBSET (1..MaxRunRows), {"APIError"}, {}) : DiscoverRunRows(o)
    \/ \E o \in Outcomes({"ok"}, {"APIError"}, "ok") : BatchProcessTry(o)
    \/ RetrySleep
    \/ ProcessBatchesEnd
    \/ \E o \in Outcomes(RelaxCells, {"APIError"}, Blank) : ReadRelaxCell(o)
    \/ SleepDone

(***************************************************************************)
(* split_list (utils.py:19-30) on its own                                  *)
(***************************************************************************)
\* Longest list and largest chunk size the function is called with.
MaxListLen == 7

MaxChunkSize == 4

\* The lists: 1..n, and short lists with repeated elements.
SplitLists ==
    {[k \in 1..n |-> k] : n \in 0..MaxListLen}
    \cup UNION {[1..n -> {1, 2}] : n \in 1..3}

IdleSplit ==
    /\ split_lst = << >>
    /\ split_size = 1
    /\ split_out = << >>
    /\ slpc = "idle"

InitSplit ==
    /\ split_lst \in SplitLists
    /\ split_size \in 1..MaxChunkSize
    /\ split_out = << >>
    /\ slpc = "call"

\* utils.py:30
SplitList ==
    /\ slpc = "call"
    /\ split_out' = split_list(split_lst, split_size)
    /\ slpc' = "done"
    /\ UNCHANGED <<split_lst, split_size>>
    /\ FrameSplit

NextSplit == SplitList

(***************************************************************************)
(* update_sheet_data (processes.py:182-203): the audit rows.  A dict is    *)
(* iterated in insertion order, so the catalog is the sequence of its      *)
(* games and a denomination map the sequence of its items.                 *)
(***************************************************************************)
\* Cycles whose audit is followed.
MaxAuditRuns == 2

\* config.py:33
SHEET_DATA_START_INDEX == 3

Item(k, v) == [key |-> k, value |-> v]

\* The items of a denomination map, in the order of the vendor's answer.
ItemLists ==
    {<< >>,
     <<Item(<<"10">>, 50)>>,
     <<Item(<<"10">>, 65), Item(<<"20">>, 120)>>,
     <<Item(<<"20">>, 120), Item(<<"10">>, 65)>>}

OrderedGame(g, items) == [game |-> g, items |-> items]

\* The catalogs get_game_dict returns, in the order of the vendor's games.
OrderedCatalogs ==
    {<< >>}
    \cup {<<OrderedGame(g, it)>> : g \in Games, it \in ItemLists}
    \cup {<<OrderedGame(gh[1], it), OrderedGame(gh[2], jt)>> :
              gh \in {p \in Games \X Games : p[1] # p[2]},
              it \in ItemLists, jt \in ItemLists}

\* processes.py:186-197  the DataRow appended when data_rows holds drs
DataRow_IndexAfterAppend(drs, game, item) ==
    [index |-> Len(drs) + 1 + SHEET_DATA_START_INDEX,
     f |-> [n \in FieldNames("DataRow") |->
              CASE n = "STT" -> IntStr(Len(drs) + 1)
                [] n = "Game" -> game.game
                [] n = "Denomination" -> item.key
                [] n = "Price" -> FloatStr(item.value)
                [] OTHER -> Timestamp]]

DataRow(drs, game, item) ==
    [index |-> Len(drs) + SHEET_DATA_START_INDEX,
     f |-> [n \in FieldNames("DataRow") |->
              CASE n = "STT" -> IntStr(Len(drs) + 1)
                [] n = "Game" -> game.game
                [] n = "Denomination" -> item.key
                [] n = "Price" -> FloatStr(item.value)
                [] OTHER -> Timestamp]]

\* processes.py:185-197  the inner loop, over the items of one game
RECURSIVE AppendItems(_, _, _)
AppendItems(drs, game, items) ==
    IF items = << >> THEN drs
    ELSE AppendItems(Append(drs, DataRow(drs, game, Head(items))), game,
                     Tail(items))

\* processes.py:183-197  the outer loop, over the games
RECURSIVE AppendGames(_, _)
AppendGames(drs, gd) ==
    IF gd = << >> THEN drs
    ELSE AppendGames(AppendItems(drs, Head(gd), Head(gd).items), Tail(gd))

NoAudit == [game_dict |-> << >>, batch |-> << >>]

IdleAudit ==
    /\ dataCells = EmptyDict
    /\ audit_dict = << >>
    /\ data_rows = << >>
    /\ auditBatch = << >>
    /\ auditOk = FALSE
    /\ auditRuns = 0
    /\ auditBefore = NoAudit

InitAudit == IdleAudit

\* processes.py:182-203  update_sheet_data(game_dict); DataRow.batch_update
\* (models.py:200-238) sends the batch when there are rows, and the service
\* applies it or refuses it (then, the retries spent, the call raises).
UpdateSheetData(gd, ok) ==
    /\ auditRuns < MaxAuditRuns
    /\ LET drs  == AppendGames(<< >>, gd)
           batch == IF Len(drs) > 0 THEN UpdateBatch("DataRow", drs) ELSE << >>
       IN  /\ audit_dict' = gd
           /\ data_rows' = drs
           /\ auditBatch' = batch
           /\ auditOk' = ok
           /\ dataCells' = IF ok THEN ApplyBatch(dataCells, batch) ELSE dataCells
    /\ auditBefore' = [game_dict |-> audit_dict, batch |-> auditBatch]
    /\ auditRuns' = auditRuns + 1
    /\ FrameAudit

NextAudit == \E gd \in OrderedCatalogs, ok \in BOOLEAN : UpdateSheetData(gd, ok)

(***************************************************************************)
(* batch_process after batch_get (processes.py:145-177): the filter on     *)
(* FILL_IN, find_cell_to_update (21-99), batch_update_price (102-129) and  *)
(* the static RowModel.batch_update.                                       *)
(***************************************************************************)
\* Rows the scanned code column may hold.
MaxCodeRows == 3

\* sheet/enums.py  CheckType.RUN.value: the run marker
CheckTypeRun == <<"1">>

\* The catalog of the cycle the chunk is processed in.
WriteCatalog == (<<"G">> :> FriElidiasGame(<<"G">>, (<<"10">> :> 50), <<"n">>))

\* The routing cells of a free-form row (columns L..P): none of them, all of
\* them, or all but the code.
Routings ==
    {[ID_SHEET |-> NoneV, SHEET |-> NoneV, COL_NOTE |-> NoneV, CODE |-> NoneV,
      COL_CODE |-> NoneV],
     [ID_SHEET |-> <<"S">>, SHEET |-> <<"T">>, COL_NOTE |-> <<"C">>,
      CODE |-> <<"c">>, COL_CODE |-> <<"A">>],
     [ID_SHEET |-> <<"S">>, SHEET |-> <<"T">>, COL_NOTE |-> <<"C">>,
      CODE |-> <<"d">>, COL_CODE |-> <<"A">>],
     [ID_SHEET |-> <<"S">>, SHEET |-> <<"T">>, COL_NOTE |-> <<"C">>,
      CODE |-> NoneV, COL_CODE |-> <<"A">>]}

\* A row as batch_get returns it (models.py:172-185): index, stripped cells.
WriteRow(index, fill_in, routing) ==
    [index |-> index,
     f |-> [n \in FieldNames("RowModel") |->
              CASE n = "CHECK" -> CheckTypeRun
                [] n = "GAME_NAME" -> <<"G">>
                [] n = "DENOMINATION" -> <<"10">>
                [] n = "FILL_IN" -> fill_in
                [] n \in DOMAIN routing -> routing[n]
                [] OTHER -> NoneV]]

FillIns == {CheckTypeRun, <<"0">>, NoneV}

WriteRowLists ==
    {<<WriteRow(2, fl, rt)>> : fl \in FillIns, rt \in Routings}
    \cup {<<WriteRow(2, fl, rt), WriteRow(3, gl, st)>> :
              fl \in FillIns, rt \in Routings, gl \in FillIns, st \in Routings}

\* The cells of the code column: a row of the grid is its one cell, or empty.
CodeCells == {<< >>, <<(<<"c">>)>>, <<(<<"c", " ">>)>>, <<(<<"d">>)>>}

CodeGrids == UNION {[1..n -> CodeCells] : n \in 0..MaxCodeRows}

\* The column letters and gspread's conversions between letters and numbers
\* (a1_range_to_grid_range, rowcol_to_a1) for one-letter columns.
Letters == <<"A", "B", "C", "D", "E", "F", "G", "H", "I", "J", "K", "L", "M",
             "N", "O", "P", "Q", "R", "S", "T", "U", "V", "W", "X", "Y", "Z">>

\* a1_range_to_grid_range(f"{col}:{col}").startColumnIndex (0-based)
StartColumnIndex(col) == (CHOOSE k \in 1..Len(Letters) : Letters[k] = col[1]) - 1

\* a1_range_to_grid_range of a whole column has no startRowIndex: GridRange's
\* default (sheet/utils.py:6)
StartRowIndex == 0

rowcol_to_a1(row, col) == <<Letters[col]>> \o IntStr(row)

\* bool(v) of an Optional[str]
Truthy(v) == v # NoneV /\ v # << >>

\* processes.py:27-34  the rows whose code range is fetched
Requested(rm) ==
    \A n \in {"FILL_IN", "ID_SHEET", "SHEET", "COL_NOTE", "CODE", "COL_CODE"} :
        Truthy(rm.f[n])

\* processes.py:70-76  the rows that are resolved
Resolvable(rm) ==
    \A n \in {"ID_SHEET", "SHEET", "COL_NOTE", "CODE", "COL_CODE"} :
        Truthy(rm.f[n])

\* processes.py:87-97  the scan of the code column for one row, from grid row
\* r on (1-based: enumerate's i + 1): every match assigns the address
RECURSIVE ScanCodes_FirstMatch(_, _, _, _)
ScanCodes_FirstMatch(grid, rm, r, found) ==
    IF r > Len(grid) THEN found
    ELSE IF found = Nothing /\ grid[r] # << >>
                /\ Strip(rm.f["CODE"]) = Strip(grid[r][1])
         THEN ScanCodes_FirstMatch(grid, rm, r + 1,
                  Some(rowcol_to_a1(r + StartRowIndex,
                                    1 + StartColumnIndex(rm.f["COL_NOTE"]))))
         ELSE ScanCodes_FirstMatch(grid, rm, r + 1, found)

RECURSIVE ScanCodes(_, _, _, _)
ScanCodes(grid, rm, r, found) ==
    IF r > Len(grid) THEN found
    ELSE IF grid[r] # << >> /\ Strip(rm.f["CODE"]) = Strip(grid[r][1])
         THEN ScanCodes(grid, rm, r + 1,
                  Some(rowcol_to_a1(r + StartRowIndex,
                                    1 + StartColumnIndex(rm.f["COL_NOTE"]))))
         ELSE ScanCodes(grid, rm, r + 1, found)

\* processes.py:69-99  mapping_dict: str(index) -> address, for the rows that
\* are resolvable and have a match
find_cell_to_update(rms, grid) ==
    LET hit == {k \in 1..Len(rms) :
                   Resolvable(rms[k]) /\ ScanCodes(grid, rms[k], 1, Nothing) # Nothing}
    IN  [key \in {IntStr(rms[k].index) : k \in hit} |->
            LET k == CHOOSE k \in hit : IntStr(rms[k].index) = key
            IN  ScanCodes(grid, rms[k], 1, Nothing)[1]]

\* processes.py:109-123  the payloads of batch_update_price, in row order
RECURSIVE PricePayloads(_, _)
PricePayloads(rms, mapping) ==
    IF rms = << >> THEN << >>
    ELSE LET rm == Head(rms)
         IN  (IF Truthy(rm.f["ID_SHEET"]) /\ Truthy(rm.f["SHEET"])
                    /\ Truthy(rm.f["COL_NOTE"])
                    /\ IntStr(rm.index) \in DOMAIN mapping
                 THEN <<[range |-> mapping[IntStr(rm.index)],
                         value |-> IF Truthy(rm.f["PRICE"]) THEN rm.f["PRICE"]
                                                            ELSE << >>]>>
                 ELSE << >>)
             \o PricePayloads(Tail(rms), mapping)

\* processes.py:110-115  whether update_dict gets an entry for a sheet
HasTargetSheet(rms) ==
    \E k \in 1..Len(rms) :
        Truthy(rms[k].f["ID_SHEET"]) /\ Truthy(rms[k].f["SHEET"])
            /\ Truthy(rms[k].f["COL_NOTE"])

\* processes.py:150-164  the loop body on every row of a list
PriceAll(gd, rms) == [k \in 1..Len(rms) |-> ComputeRow(gd, rms[k])]

\* A filter that takes every row with a non-blank flag.
IsRun_AnyFlag(rm) == Truthy(rm.f["FILL_IN"])

\* processes.py:166-167  `if row_model.FILL_IN == CheckType.RUN.value`
IsRun(rm) == rm.f["FILL_IN"] = CheckTypeRun

IdleWrite ==
    /\ row_models = << >>
    /\ to_be_updated_row_models = << >>
    /\ codes_grid = << >>
    /\ mapping_dict = EmptyDict
    /\ dynReqs = << >>
    /\ staticReqs = << >>
    /\ wpc = "idle"

\* processes.py:139-145  batch_get has returned the rows of the chunk
InitWrite ==
    /\ row_models \in WriteRowLists
    /\ to_be_updated_row_models = << >>
    /\ codes_grid \in CodeGrids
    /\ mapping_dict = EmptyDict
    /\ dynReqs = << >>
    /\ staticReqs = << >>
    /\ wpc = "rows"

\* processes.py:150-167  pricing and the filter on FILL_IN
PriceAndFilter ==
    /\ wpc = "rows"
    /\ row_models' = PriceAll(WriteCatalog, row_models)
    /\ to_be_updated_row_models' = SelectSeq(PriceAll(WriteCatalog, row_models), IsRun)
    /\ wpc' = "find"
    /\ UNCHANGED <<codes_grid, mapping_dict, dynReqs, staticReqs>>
    /\ FrameWrite

\* processes.py:107 with 21-99  find_cell_to_update: the code ranges of the
\* requested rows are read (when there are any; the read may raise), then the
\* rows are resolved; a resolvable row whose range was not requested is a
\* KeyError (processes.py:80-82)
FindCellToUpdate(ok) ==
    /\ wpc = "find"
    /\ LET rms == to_be_updated_row_models
           needsRead == \E k \in 1..Len(rms) : Requested(rms[k])
           keyError == \E k \in 1..Len(rms) : Resolvable(rms[k]) /\ ~needsRead
       IN  /\ ~ok => needsRead
           /\ IF ok /\ ~keyError
                 THEN /\ mapping_dict' = find_cell_to_update(rms, codes_grid)
                      /\ wpc' = "price"
                 ELSE /\ mapping_dict' = mapping_dict
                      /\ wpc' = IF ok THEN "keyerror" ELSE "raised"
    /\ UNCHANGED <<row_models, to_be_updated_row_models, codes_grid, dynReqs,
                   staticReqs>>
    /\ FrameWrite

\* processes.py:109-129  batch_update_price: one free_style_batch_update per
\* target sheet (models.py:355-380)
BatchUpdatePrice(ok) ==
    /\ wpc = "price"
    /\ ~ok => HasTargetSheet(to_be_updated_row_models)
    /\ dynReqs' = IF ok /\ HasTargetSheet(to_be_updated_row_models)
                     THEN Append(dynReqs,
                                 PricePayloads(to_be_updated_row_models, mapping_dict))
                     ELSE dynReqs
    /\ wpc' = IF ok THEN "static" ELSE "raised"
    /\ UNCHANGED <<row_models, to_be_updated_row_models, codes_grid,
                   mapping_dict, staticReqs>>
    /\ FrameWrite

\* processes.py:173-177  RowModel.batch_update(list_object=row_models)
StaticBatchUpdate(ok) ==
    /\ wpc = "static"
    /\ staticReqs' = IF ok THEN Append(staticReqs, UpdateBatch("RowModel", row_models))
                           ELSE staticReqs
    /\ wpc' = IF ok THEN "returned" ELSE "raised"
    /\ UNCHANGED <<row_models, to_be_updated_row_models, codes_grid,
                   mapping_dict, dynReqs>>
    /\ FrameWrite

NextWrite ==
    \/ PriceAndFilter
    \/ \E ok \in BOOLEAN : FindCellToUpdate(ok)
    \/ \E ok \in BOOLEAN : BatchUpdatePrice(ok)
    \/ \E ok \in BOOLEAN : StaticBatchUpdate(ok)

(***************************************************************************)
(* process (processes.py:251-261) and batch_process (processes.py:132-179) *)
(* with its retries: the chunks of a cycle, call by call.  batch_process   *)
(* is retried as a whole (max_retries=5); of the sheet functions it calls, *)
(* RowModel.batch_update is followed attempt by attempt (max_retries=3,    *)
(* models.py:200-238), the others return or raise once their own retries   *)
(* are spent.                                                              *)
(***************************************************************************)
\* processes.py:137-179  the order of the calls of batch_process
StepAfter_FlushLate(step) ==
    CASE step = "read" -> "dynamic"
      [] step = "dynamic" -> "static"
      [] step = "static" -> "flush"
      [] OTHER -> "pace"

StepAfter(step) ==
    CASE step = "read" -> "flush"
      [] step = "flush" -> "dynamic"
      [] step = "dynamic" -> "static"
      [] OTHER -> "pace"

\* models.py:509-524  get_run_indexes: the check column is scanned from the
\* top, the rows whose value is a CheckType value are collected (from row r
\* on, 1-based)
RECURSIVE get_run_indexes(_, _)
get_run_indexes(col, r) ==
    IF r > Len(col) THEN << >>
    ELSE (IF col[r] = CheckTypeRun THEN <<r>> ELSE << >>)
         \o get_run_indexes(col, r + 1)

\* What the check column may hold.
CheckCols == [1..MaxRunRows -> {CheckTypeRun, NoneV}]

IdleChunk ==
    /\ check_col = << >>
    /\ bp_todo = << >>
    /\ bp_finished = << >>
    /\ bpc = "idle"
    /\ bp_i = 0
    /\ bu_i = 0
    /\ bp_events = << >>
    /\ bp_valid = 0
    /\ bp_reads = 0
    /\ bp_flushes = 0
    /\ bp_dynamics = 0
    /\ bp_statics = 0
    /\ bp_otherFails = 0

\* processes.py:251-257  get_run_indexes has returned, the indexes are split
InitChunk ==
    /\ check_col \in CheckCols
    /\ bp_todo = split_list(get_run_indexes(check_col, 1), PROCESS_BATCH_SIZE)
    /\ bp_finished = << >>
    /\ bpc = IF bp_todo = << >> THEN "done" ELSE "read"
    /\ bp_i = 0
    /\ bu_i = 0
    /\ bp_events = << >>
    /\ bp_valid = 0
    /\ bp_reads = 0
    /\ bp_flushes = 0
    /\ bp_dynamics = 0
    /\ bp_statics = 0
    /\ bp_otherFails = 0

\* decorators.py:14-20  a call of batch_process's body raised: the wrapper
\* re-raises on the last attempt, sleeps otherwise
ChunkRaise ==
    /\ bpc' = IF RetryExhausted(bp_i, BATCH_PROCESS_RETRIES) THEN "raised" ELSE "sleep"
    /\ bu_i' = 0

\* decorators.py:20 and 11-13  the sleep is over, the next attempt begins
ChunkRetrySleep ==
    /\ bpc = "sleep"
    /\ bpc' = "read"
    /\ bp_i' = bp_i + 1
    /\ bp_events' = << >>
    /\ UNCHANGED <<check_col, bp_todo, bp_finished, bu_i, bp_valid, bp_reads,
                   bp_flushes, bp_dynamics, bp_statics, bp_otherFails>>
    /\ FrameChunk

\* processes.py:139-143 with models.py:157-190  RowModel.batch_get reads the
\* rows of the chunk; nv of them validate
ChunkBatchGet(ok, nv) ==
    /\ bpc = "read"
    /\ nv \in 0..Len(Head(bp_todo))
    /\ ~ok => nv = 0
    /\ bp_events' = <<"read">>
    /\ bp_reads' = bp_reads + 1
    /\ IF ok THEN /\ bpc' = StepAfter("read")
                  /\ bp_valid' = nv
                  /\ UNCHANGED <<bu_i, bp_otherFails>>
             ELSE /\ ChunkRaise
                  /\ bp_otherFails' = bp_otherFails + 1
                  /\ UNCHANGED bp_valid
    /\ UNCHANGED <<check_col, bp_todo, bp_finished, bp_i, bp_flushes, bp_dynamics,
                   bp_statics>>
    /\ FrameChunk

\* models.py:194-196  batch_get flushes the validation-error notes
ChunkFlushNotes(ok) ==
    /\ bpc = "flush"
    /\ bp_events' = Append(bp_events, "flush")
    /\ bp_flushes' = bp_flushes + 1
    /\ IF ok THEN /\ bpc' = StepAfter("flush")
                  /\ UNCHANGED <<bu_i, bp_otherFails>>
             ELSE /\ ChunkRaise
                  /\ bp_otherFails' = bp_otherFails + 1
    /\ UNCHANGED <<check_col, bp_todo, bp_finished, bp_i, bp_valid, bp_reads,
                   bp_dynamics, bp_statics>>
    /\ FrameChunk

\* processes.py:169-170  batch_update_price: the dynamic cell writes
ChunkDynamicWrites(ok) ==
    /\ bpc = "dynamic"
    /\ bp_events' = Append(bp_events, "dynamic")
    /\ bp_dynamics' = bp_dynamics + 1
    /\ IF ok THEN /\ bpc' = StepAfter("dynamic")
                  /\ UNCHANGED <<bu_i, bp_otherFails>>
             ELSE /\ ChunkRaise
                  /\ bp_otherFails' = bp_otherFails + 1
    /\ UNCHANGED <<check_col, bp_todo, bp_finished, bp_i, bp_valid, bp_reads,
                   bp_flushes, bp_statics>>
    /\ FrameChunk

\* processes.py:173-177 with models.py:200-238  one attempt of
\* RowModel.batch_update: worksheet.batch_update is called when the list is
\* not empty; when it raises, the attempt is repeated up to max_retries=3
\* times, then the exception leaves batch_process's body
ChunkStaticTry(ok) ==
    /\ bpc = "static"
    /\ ~ok => bp_valid > 0
    /\ bp_events' = IF bu_i = 0 THEN Append(bp_events, "static") ELSE bp_events
    /\ bp_statics' = IF bp_valid > 0 THEN bp_statics + 1 ELSE bp_statics
    /\ IF ok THEN /\ bpc' = StepAfter("static")
                  /\ bu_i' = 0
             ELSE IF RetryExhausted(bu_i, BATCH_UPDATE_RETRIES)
                     THEN ChunkRaise
                     ELSE /\ bu_i' = bu_i + 1
                          /\ UNCHANGED bpc
    /\ UNCHANGED <<check_col, bp_todo, bp_finished, bp_i, bp_valid, bp_reads,
                   bp_flushes, bp_dynamics, bp_otherFails>>
    /\ FrameChunk

\* processes.py:179 and 257-261  sleep_for(RELAX_TIME_EACH_BATCH) returns,
\* batch_process returns, the loop goes to the next chunk
ChunkPace ==
    /\ bpc = "pace"
    /\ bp_events' = Append(bp_events, "pace")
    /\ bp_finished' = Append(bp_finished, Head(bp_todo))
    /\ bp_todo' = Tail(bp_todo)
    /\ bpc' = IF Tail(bp_todo) = << >> THEN "done" ELSE "read"
    /\ bp_i' = 0
    /\ IF Tail(bp_todo) = << >>
          THEN UNCHANGED <<bp_valid, bp_reads, bp_flushes, bp_dynamics, bp_statics, bp_otherFails>>
          ELSE /\ bp_valid' = 0
               /\ bp_reads' = 0
               /\ bp_flushes' = 0
               /\ bp_dynamics' = 0
               /\ bp_statics' = 0
               /\ bp_otherFails' = 0
    /\ UNCHANGED <<check_col, bu_i>>
    /\ FrameChunk

NextChunk ==
    \/ \E ok \in BOOLEAN, nv \in 0..PROCESS_BATCH_SIZE : ChunkBatchGet(ok, nv)
    \/ \E ok \in BOOLEAN : ChunkFlushNotes(ok)
    \/ \E ok \in BOOLEAN : ChunkDynamicWrites(ok)
    \/ \E ok \in BOOLEAN : ChunkStaticTry(ok)
    \/ ChunkPace
    \/ ChunkRetrySleep

(***************************************************************************)
(* batch_process (processes.py:132-179) on the sheets it reads and writes, *)
(* attempt by attempt: what an attempt of the body leaves in the work      *)
(* sheet and in the target sheet, and what the next attempt of the retry   *)
(* wrapper then reads.                                                     *)
(***************************************************************************)
\* Attempts of batch_process that are followed after the first one.
MaxAttemptRetries == 2

\* How an attempt ends: it returns, or a sheet call raises (once its own
\* retries are spent).  A write that raises may or may not have been applied
\* by the service.
AttemptOutcomes == {"returned", "find", "dynamic", "dynamic_applied", "static",
                    "static_applied"}

\* The rows of the work sheet: run or not, routed to note column C or to the
\* code column itself, priced by the catalog or not (with a price from an
\* earlier cycle in the sheet).
AttemptRows(index) ==
    LET routed(note, code) ==
            [ID_SHEET |-> <<"S">>, SHEET |-> <<"T">>, COL_NOTE |-> note,
             CODE |-> code, COL_CODE |-> <<"A">>]
    IN  {WriteRow(index, CheckTypeRun, routed(<<"C">>, <<"c">>)),
         WriteRow(index, CheckTypeRun, routed(<<"A">>, <<"c">>)),
         WriteRow(index, CheckTypeRun, routed(<<"C">>, <<"d">>)),
         WriteRow(index, <<"0">>, routed(<<"C">>, <<"c">>)),
         [WriteRow(index, CheckTypeRun, routed(<<"C">>, <<"c">>))
             EXCEPT !.f["DENOMINATION"] = <<"99">>,
                    !.f["PRICE"] = <<"1", ".", "0">>]}

AttemptRowLists ==
    {<<rm>> : rm \in AttemptRows(2)}
    \cup {<<rm, sm>> : rm \in AttemptRows(2), sm \in AttemptRows(3)}

\* The code column of the target sheet: empty, one code, the code twice
\* (the second padded) around another, the other code first, the code twice.
AttemptGrids ==
    {<< >>,
     <<(<<(<<"c">>)>>)>>,
     <<(<<(<<"c">>)>>), (<<(<<"d">>)>>), (<<(<<"c", " ">>)>>)>>,
     <<(<<(<<"d">>)>>), (<<(<<"c">>)>>)>>,
     <<(<<(<<"c">>)>>), << >>, (<<(<<"c">>)>>)>>}

\* decorators.py:11  the attempts of batch_process that are followed
AttemptRetries ==
    IF MaxAttemptRetries < BATCH_PROCESS_RETRIES THEN MaxAttemptRetries
                                                 ELSE BATCH_PROCESS_RETRIES

\* The work sheet that holds the rows: f"{col}{index}" -> text, for the
\* fields that have a value.
SheetOfRows(rms) ==
    LET m  == mapping_fields("RowModel")
        at == {<<k, j>> \in (1..Len(rms)) \X (1..Len(m)) : rms[k].f[m[j].name] # NoneV}
    IN  [addr \in {A1(m[a[2]].col, rms[a[1]].index) : a \in at} |->
            LET a == CHOOSE a \in at : A1(m[a[2]].col, rms[a[1]].index) = addr
            IN  rms[a[1]].f[m[a[2]].name]]

\* The target sheet whose code column A holds the grid.
SheetOfGrid(grid) ==
    [addr \in {A1("A", r) : r \in {q \in 1..Len(grid) : grid[q] # << >>}} |->
        grid[CHOOSE r \in 1..Len(grid) : A1("A", r) = addr][1]]

\* models.py:157-190  RowModel.batch_get on the work sheet: the rows that
\* validate
ReadRows(main, idxs) ==
    ResultList("RowModel", idxs, query_results(main, query_value("RowModel", idxs)), 1)

\* processes.py:51-60  worksheet.batch_get of f"{col}:{col}": the rows of the
\* column down to the last cell that is not empty, a row without a value
\* being empty
ColumnValues(tgt, col) ==
    LET filled == {r \in 1..MaxCodeRows :
                      /\ (col \o IntStr(r)) \in DOMAIN tgt
                      /\ tgt[col \o IntStr(r)] # << >>}
        n == IF filled = {} THEN 0
             ELSE CHOOSE r \in filled : \A x \in filled : x <= r
    IN  [r \in 1..n |-> IF r \in filled THEN <<tgt[col \o IntStr(r)]>> ELSE << >>]

\* processes.py:137-177  whether an attempt on these sheets can end this way:
\* a call that is not made does not raise
AttemptPossible(main, tgt, idxs, out) ==
    LET rms == PriceAll(WriteCatalog, ReadRows(main, idxs))
        upd == SelectSeq(rms, IsRun)
    IN  /\ out = "find" => \E k \in 1..Len(upd) : Requested(upd[k])
        /\ out \in {"dynamic", "dynamic_applied"} => HasTargetSheet(upd)
        /\ out \in {"static", "static_applied"} => rms # << >>

\* processes.py:137-177  the sheets after an attempt that ends with `out`:
\* the rows are read and priced, the run rows are resolved against the code
\* column and their prices written to the target sheet, then every row is
\* written back to the work sheet
AttemptSheets(main, tgt, idxs, out) ==
    LET rms == PriceAll(WriteCatalog, ReadRows(main, idxs))
        upd == SelectSeq(rms, IsRun)
        mapping == find_cell_to_update(upd, ColumnValues(tgt, <<"A">>))
        dyn == out \notin {"find", "dynamic"} /\ HasTargetSheet(upd)
        sta == out \in {"returned", "static_applied"}
    IN  [main |-> IF sta THEN ApplyBatch(main, UpdateBatch("RowModel", rms)) ELSE main,
         target |-> IF dyn THEN ApplyBatch(tgt, PricePayloads(upd, mapping)) ELSE tgt]

IdleAttempt ==
    /\ at_main = EmptyDict
    /\ at_target = EmptyDict
    /\ at_indexes = << >>
    /\ at_start = [main |-> EmptyDict, target |-> EmptyDict]
    /\ at_try = 0
    /\ at_applied = FALSE
    /\ apc = "idle"

\* processes.py:257-261  batch_process is called on a chunk
InitAttempt ==
    /\ \E rms \in AttemptRowLists, grid \in AttemptGrids :
          /\ at_main = SheetOfRows(rms)
          /\ at_target = SheetOfGrid(grid)
          /\ at_indexes = [k \in 1..Len(rms) |-> rms[k].index]
          /\ at_start = [main |-> SheetOfRows(rms), target |-> SheetOfGrid(grid)]
    /\ at_try = 0
    /\ at_applied = FALSE
    /\ apc = "try"

\* processes.py:132-179 with decorators.py:11-20  one attempt of batch_process
BatchProcessAttempt(out) ==
    /\ apc = "try"
    /\ RetryInRange(at_try, AttemptRetries)
    /\ AttemptPossible(at_main, at_target, at_indexes, out)
    /\ at_main' = AttemptSheets(at_main, at_target, at_indexes, out).main
    /\ at_target' = AttemptSheets(at_main, at_target, at_indexes, out).target
    /\ IF out = "returned"
          THEN /\ apc' = "returned"
               /\ UNCHANGED <<at_try, at_applied>>
          ELSE /\ at_applied' = (at_applied \/ out # "find")
               /\ IF RetryExhausted(at_try, AttemptRetries)
                     THEN /\ apc' = "raised"
                          /\ UNCHANGED at_try
                     ELSE /\ apc' = "try"
                          /\ at_try' = at_try + 1
    /\ UNCHANGED <<at_indexes, at_start>>
    /\ FrameAttempt

NextAttempt == \E out \in AttemptOutcomes : BatchProcessAttempt(out)

(***************************************************************************)
(* find_cell_to_update (processes.py:24-67): the code ranges to read,      *)
(* grouped by target sheet, and the reads.  sheet_get_batch_dict is kept   *)
(* as Python keeps a dict, in insertion order: a sequence of               *)
(* [sheet_id, sheets], sheets a sequence of [sheet_name, ranges].          *)
(***************************************************************************)
\* Rows of a chunk handed to find_cell_to_update.
MaxGroupRows == 3

\* The routing of a run row: two spreadsheets, two worksheets, two code
\* columns, or no routing.
GroupRoutings ==
    {[ID_SHEET |-> s, SHEET |-> t, COL_NOTE |-> <<"C">>, CODE |-> <<"c">>,
      COL_CODE |-> col] :
         s \in {<<"S">>, <<"X">>}, t \in {<<"T">>, <<"U">>}, col \in {<<"A">>, <<"B">>}}
    \cup {[ID_SHEET |-> NoneV, SHEET |-> NoneV, COL_NOTE |-> NoneV,
           CODE |-> NoneV, COL_CODE |-> NoneV]}

GroupRowLists ==
    UNION {{[k \in 1..n |-> WriteRow(k + 1, CheckTypeRun, rt[k])] :
               rt \in [1..n -> GroupRoutings]} : n \in 1..MaxGroupRows}

\* processes.py:36  f"{row_model.COL_CODE}:{row_model.COL_CODE}"
RangeCode(rm) == rm.f["COL_CODE"] \o <<":">> \o rm.f["COL_CODE"]

\* processes.py:37-47  the range of a row goes into sheet_get_batch_dict: a
\* new sheet id, a new sheet name of a known id, or one more range of a known
\* sheet
AddRange(d, sid, sname, range_code) ==
    IF \E p \in 1..Len(d) : d[p].sheet_id = sid
       THEN [p \in 1..Len(d) |->
               IF d[p].sheet_id # sid THEN d[p]
               ELSE IF \E q \in 1..Len(d[p].sheets) : d[p].sheets[q].sheet_name = sname
                       THEN [d[p] EXCEPT !.sheets =
                               [q \in 1..Len(d[p].sheets) |->
                                   IF d[p].sheets[q].sheet_name = sname
                                      THEN [d[p].sheets[q] EXCEPT !.ranges = Append(@, range_code)]
                                      ELSE d[p].sheets[q]]]
                       ELSE [d[p] EXCEPT !.sheets =
                               Append(@, [sheet_name |-> sname, ranges |-> <<range_code>>])]]
       ELSE Append(d, [sheet_id |-> sid,
                       sheets |-> <<[sheet_name |-> sname, ranges |-> <<range_code>>]>>])

\* processes.py:26-47  the first loop over the rows
RECURSIVE GroupRanges(_, _)
GroupRanges(rms, d) ==
    IF rms = << >> THEN d
    ELSE GroupRanges(Tail(rms),
                     IF Requested(Head(rms))
                        THEN AddRange(d, Head(rms).f["ID_SHEET"], Head(rms).f["SHEET"],
                                      RangeCode(Head(rms)))
                        ELSE d)

\* processes.py:51-52  the sheets of the dict in the order of the two loops
RECURSIVE SheetsInOrder(_)
SheetsInOrder(d) ==
    IF d = << >> THEN << >>
    ELSE [q \in 1..Len(Head(d).sheets) |->
              [sheet_id |-> Head(d).sheet_id,
               sheet_name |-> Head(d).sheets[q].sheet_name,
               ranges |-> Head(d).sheets[q].ranges]]
         \o SheetsInOrder(Tail(d))

IdleGroup ==
    /\ grp_rows = << >>
    /\ sheet_get_batch_dict = << >>
    /\ grp_pending = << >>
    /\ batchGets = << >>
    /\ fcpc = "idle"

\* processes.py:21-24  find_cell_to_update is called
InitGroup ==
    /\ grp_rows \in GroupRowLists
    /\ sheet_get_batch_dict = << >>
    /\ grp_pending = << >>
    /\ batchGets = << >>
    /\ fcpc = "group"

\* processes.py:26-47  the first loop
GroupRows ==
    /\ fcpc = "group"
    /\ sheet_get_batch_dict' = GroupRanges(grp_rows, << >>)
    /\ grp_pending' = SheetsInOrder(GroupRanges(grp_rows, << >>))
    /\ fcpc' = IF GroupRanges(grp_rows, << >>) = << >> THEN "resolve" ELSE "read"
    /\ UNCHANGED <<grp_rows, batchGets>>
    /\ FrameGroup

\* processes.py:51-56  worksheet.batch_get(ranges=get_batch) of the next
\* sheet; the read returns or raises
BatchGetSheet(ok) ==
    /\ fcpc = "read"
    /\ batchGets' = Append(batchGets, Head(grp_pending))
    /\ grp_pending' = Tail(grp_pending)
    /\ fcpc' = IF ~ok THEN "raised"
              ELSE IF Tail(grp_pending) = << >> THEN "resolve" ELSE "read"
    /\ UNCHANGED <<grp_rows, sheet_get_batch_dict>>
    /\ FrameGroup

NextGroup ==
    \/ GroupRows
    \/ \E ok \in BOOLEAN : BatchGetSheet(ok)

(***************************************************************************)
(* get_game_dict (processes.py:206-237) followed by batch_process          *)
(* (processes.py:137-177): from the denomination fetches of a cycle to the *)
(* cells of the work sheet.  The rows carry no routing, so                 *)
(* batch_update_price sends nothing.                                       *)
(***************************************************************************)
\* The games get_available_games lists.
FallbackGameLists == {<<(<<"G">>)>>, <<(<<"G">>), (<<"H">>)>>, <<(<<"H">>), (<<"G">>)>>}

\* The rows of the work sheet: of game G or H, run or not, with or without a
\* price from an earlier cycle.
FallbackRows(index) ==
    {[WriteRow(index, fl, [ID_SHEET |-> NoneV])
         EXCEPT !.f["GAME_NAME"] = g, !.f["PRICE"] = old] :
        fl \in {CheckTypeRun, <<"0">>}, g \in Games,
        old \in {NoneV, <<"1", ".", "0">>}}

FallbackRowLists ==
    {<<rm>> : rm \in FallbackRows(2)}
    \cup {<<[WriteRow(2, CheckTypeRun, [ID_SHEET |-> NoneV])
                EXCEPT !.f["PRICE"] = <<"1", ".", "0">>], sm>> :
             sm \in FallbackRows(3)}

IdleFallback ==
    /\ fb_games = << >>
    /\ fb_denoms = << >>
    /\ fb_failed = {}
    /\ fb_stale = {}
    /\ fb_dict = EmptyDict
    /\ fb_indexes = << >>
    /\ fb_rows = << >>
    /\ fb_main = EmptyDict
    /\ fbpc = "idle"

\* processes.py:210  the games are listed; the store file is what an earlier
\* run left, a day or more ago
InitFallback ==
    /\ IdleDenom
    /\ now \in {0, 2}
    /\ fileExists \in BOOLEAN
    /\ file \in {EmptyDict} \cup
            {(<<"G">> :> model_dump_json([date |-> 0, valid |-> v, data |-> p])) :
                v \in PriorTtls, p \in Payloads}
    /\ file # EmptyDict => fileExists
    /\ data = [s \in Stores |-> EmptyDict]
    /\ built = {}
    /\ lastSet = EmptyDict
    /\ lastOp = NoOp
    /\ fb_games \in FallbackGameLists
    /\ fb_denoms = << >>
    /\ fb_failed = {}
    /\ fb_stale = {}
    /\ fb_dict = EmptyDict
    /\ \E rms \in FallbackRowLists :
          /\ fb_main = SheetOfRows(rms)
          /\ fb_indexes = [k \in 1..Len(rms) |-> rms[k].index]
    /\ fb_rows = << >>
    /\ fbpc = "denoms"

\* processes.py:215-217  get_denominations is awaited for the next game
FallbackCall ==
    /\ fbpc = "denoms"
    /\ Len(fb_denoms) < Len(fb_games)
    /\ dpc = "idle" \/ dgame # fb_games[Len(fb_denoms) + 1]
    /\ DenomStart(fb_games[Len(fb_denoms) + 1])

\* api.py:64-89  the POST of the awaited call answers or fails
FallbackPost ==
    /\ fbpc = "denoms"
    /\ \/ \E resp \in Payloads : DenomPostOk(resp)
       \/ \E e \in UpstreamExcTypes : DenomPostFails(e)

\* processes.py:216-221  the call has returned (append its map) or raised
\* (HTTPStatusError: append {}; anything else leaves get_game_dict)
FallbackCollect ==
    /\ fbpc = "denoms"
    /\ Len(fb_denoms) < Len(fb_games)
    /\ dgame = fb_games[Len(fb_denoms) + 1]
    /\ dpc \in {"returned", "raised"}
    /\ IF dpc = "returned"
          THEN /\ fb_denoms' = Append(fb_denoms, dresult[1])
               /\ UNCHANGED <<fb_failed, fb_stale, fbpc>>
          ELSE /\ fb_failed' = fb_failed \cup {dgame}
               /\ fb_stale' = IF dfound # Nothing THEN fb_stale \cup {dgame} ELSE fb_stale
               /\ IF Caught("denoms", dexc)
                     THEN /\ fb_denoms' = Append(fb_denoms, EmptyDict)
                          /\ UNCHANGED fbpc
                     ELSE /\ fbpc' = "aborted"
                          /\ UNCHANGED fb_denoms
    /\ UNCHANGED <<fb_games, fb_dict, fb_indexes, fb_rows, fb_main>>
    /\ UNCHANGED <<varsStore, varsDenom>>
    /\ FrameFallback

\* processes.py:223-237  the notes are gathered (or the gather raises) and
\* the catalog is built
FallbackBuild(ok) ==
    /\ fbpc = "denoms"
    /\ Len(fb_denoms) = Len(fb_games)
    /\ IF ok
          THEN /\ fb_dict' = BuildGameDict(fb_games,
                                  [k \in 1..Len(fb_games) |-> <<"n">>], fb_denoms)
               /\ fbpc' = "read"
          ELSE /\ fbpc' = "aborted"
               /\ UNCHANGED fb_dict
    /\ UNCHANGED <<fb_games, fb_denoms, fb_failed, fb_stale, fb_indexes, fb_rows,
                   fb_main>>
    /\ UNCHANGED <<varsStore, varsDenom>>
    /\ FrameFallback

\* processes.py:139-143  RowModel.batch_get
FallbackBatchGet ==
    /\ fbpc = "read"
    /\ fb_rows' = ReadRows(fb_main, fb_indexes)
    /\ fbpc' = "price"
    /\ UNCHANGED <<fb_games, fb_denoms, fb_failed, fb_stale, fb_dict, fb_indexes,
                   fb_main>>
    /\ UNCHANGED <<varsStore, varsDenom>>
    /\ FrameFallback

\* processes.py:150-164  the loop over row_models
FallbackPriceRows ==
    /\ fbpc = "price"
    /\ fb_rows' = PriceAll(fb_dict, fb_rows)
    /\ fbpc' = "static"
    /\ UNCHANGED <<fb_games, fb_denoms, fb_failed, fb_stale, fb_dict, fb_indexes,
                   fb_main>>
    /\ UNCHANGED <<varsStore, varsDenom>>
    /\ FrameFallback

\* processes.py:173-177  RowModel.batch_update(list_object=row_models) is
\* applied by the sheet, or raises with its retries spent
FallbackStaticUpdate(ok) ==
    /\ fbpc = "static"
    /\ fb_main' = IF ok THEN ApplyBatch(fb_main, UpdateBatch("RowModel", fb_rows))
                        ELSE fb_main
    /\ fbpc' = IF ok THEN "written" ELSE "raised"
    /\ UNCHANGED <<fb_games, fb_denoms, fb_failed, fb_stale, fb_dict, fb_indexes,
                   fb_rows>>
    /\ UNCHANGED <<varsStore, varsDenom>>
    /\ FrameFallback

NextFallback ==
    \/ FallbackCall
    \/ FallbackPost
    \/ FallbackCollect
    \/ \E ok \in BOOLEAN : FallbackBuild(ok)
    \/ FallbackBatchGet
    \/ FallbackPriceRows
    \/ \E ok \in BOOLEAN : FallbackStaticUpdate(ok)

(***************************************************************************)
(* The specifications, one per component                                   *)
(***************************************************************************)
InitSpecRetry == InitRetry /\ IdleStore /\ IdleDenom /\ IdleNotes /\ IdleSheet /\ IdleJoin
    /\ IdleCycle
    /\ IdleSplit
    /\ IdleAudit
    /\ IdleWrite
    /\ IdleChunk
    /\ IdleAttempt
    /\ IdleGroup
    /\ IdleFallback

SpecRetry == InitSpecRetry /\ [][NextRetry]_vars

InitSpecStore == InitStore /\ IdleRetry /\ IdleDenom /\ IdleNotes /\ IdleSheet /\ IdleJoin
    /\ IdleCycle
    /\ IdleSplit
    /\ IdleAudit
    /\ IdleWrite
    /\ IdleChunk
    /\ IdleAttempt
    /\ IdleGroup
    /\ IdleFallback

SpecStore == InitSpecStore /\ [][NextStore]_vars

InitSpecDenom == InitDenom /\ IdleRetry /\ IdleNotes /\ IdleSheet /\ IdleJoin
    /\ IdleCycle
    /\ IdleSplit
    /\ IdleAudit
    /\ IdleWrite
    /\ IdleChunk
    /\ IdleAttempt
    /\ IdleGroup
    /\ IdleFallback

SpecDenom == InitSpecDenom /\ [][NextDenom]_vars

InitSpecNotes == InitNotes /\ IdleRetry /\ IdleStore /\ IdleDenom /\ IdleSheet /\ IdleJoin
    /\ IdleCycle
    /\ IdleSplit
    /\ IdleAudit
    /\ IdleWrite
    /\ IdleChunk
    /\ IdleAttempt
    /\ IdleGroup
    /\ IdleFallback

SpecNotes == InitSpecNotes /\ [][NextNotes]_vars

InitSpecSheet == InitSheet /\ IdleStore /\ IdleDenom /\ IdleNotes /\ IdleJoin
    /\ IdleCycle
    /\ IdleSplit
    /\ IdleAudit
    /\ IdleWrite
    /\ IdleChunk
    /\ IdleAttempt
    /\ IdleGroup
    /\ IdleFallback

SpecSheet == InitSpecSheet /\ [][NextSheet]_vars

InitSpecJoin ==
    InitJoin /\ IdleRetry /\ IdleStore /\ IdleDenom /\ IdleNotes /\ IdleSheet
    /\ IdleCycle
    /\ IdleSplit
    /\ IdleAudit
    /\ IdleWrite
    /\ IdleChunk
    /\ IdleAttempt
    /\ IdleGroup
    /\ IdleFallback

SpecJoin == InitSpecJoin /\ [][NextJoin]_vars

InitSpecCycle ==
    InitCycle /\ IdleStore /\ IdleDenom /\ IdleNotes /\ IdleSheet /\ IdleJoin
    /\ IdleSplit
    /\ IdleAudit
    /\ IdleWrite
    /\ IdleChunk
    /\ IdleAttempt
    /\ IdleGroup
    /\ IdleFallback

SpecCycle == InitSpecCycle /\ [][NextCycle]_vars

\* Every external call returns or raises, and the event loop runs the one
\* coroutine there is: a step that is possible is eventually taken.
SpecCycleFair == SpecCycle /\ WF_vars(NextCycle)

InitSpecSplit ==
    InitSplit /\ IdleRetry /\ IdleStore /\ IdleDenom /\ IdleNotes /\ IdleSheet /\ IdleJoin
    /\ IdleCycle
    /\ IdleAudit
    /\ IdleWrite
    /\ IdleChunk
    /\ IdleAttempt
    /\ IdleGroup
    /\ IdleFallback

SpecSplit == InitSpecSplit /\ [][NextSplit]_vars

InitSpecAudit ==
    InitAudit /\ IdleRetry /\ IdleStore /\ IdleDenom /\ IdleNotes /\ IdleSheet /\ IdleJoin
    /\ IdleCycle /\ IdleSplit
    /\ IdleWrite
    /\ IdleChunk
    /\ IdleAttempt
    /\ IdleGroup
    /\ IdleFallback

SpecAudit == InitSpecAudit /\ [][NextAudit]_vars

InitSpecWrite ==
    InitWrite /\ IdleRetry /\ IdleStore /\ IdleDenom /\ IdleNotes /\ IdleSheet /\ IdleJoin
    /\ IdleCycle /\ IdleSplit /\ IdleAudit
    /\ IdleChunk
    /\ IdleAttempt
    /\ IdleGroup
    /\ IdleFallback

SpecWrite == InitSpecWrite /\ [][NextWrite]_vars

InitSpecChunk ==
    InitChunk /\ IdleRetry /\ IdleStore /\ IdleDenom /\ IdleNotes /\ IdleSheet /\ IdleJoin
    /\ IdleCycle /\ IdleSplit /\ IdleAudit /\ IdleWrite
    /\ IdleAttempt
    /\ IdleGroup
    /\ IdleFallback

SpecChunk == InitSpecChunk /\ [][NextChunk]_vars

InitSpecAttempt ==
    InitAttempt /\ IdleRetry /\ IdleStore /\ IdleDenom /\ IdleNotes /\ IdleSheet /\ IdleJoin
    /\ IdleCycle /\ IdleSplit /\ IdleAudit /\ IdleWrite /\ IdleChunk
    /\ IdleGroup
    /\ IdleFallback

SpecAttempt == InitSpecAttempt /\ [][NextAttempt]_vars

InitSpecGroup ==
    InitGroup /\ IdleRetry /\ IdleStore /\ IdleDenom /\ IdleNotes /\ IdleSheet /\ IdleJoin
    /\ IdleCycle /\ IdleSplit /\ IdleAudit /\ IdleWrite /\ IdleChunk /\ IdleAttempt
    /\ IdleFallback

SpecGroup == InitSpecGroup /\ [][NextGroup]_vars

\* processes.py:214-228  the vendor calls of get_game_dict, each kind on its
\* own: calls of get_denominations, or gathers of get_elitedias_game_fields
\* (the two share no state)
InitSpecUpstream ==
    InitDenom /\ InitNotes /\ IdleRetry /\ IdleSheet /\ IdleJoin
    /\ IdleCycle /\ IdleSplit /\ IdleAudit /\ IdleWrite /\ IdleChunk /\ IdleAttempt
    /\ IdleGroup
    /\ IdleFallback

NextUpstream ==
    \/ cycle = 0 /\ NextDenom
    \/ dpc = "idle" /\ NextNotes

SpecUpstream == InitSpecUpstream /\ [][NextUpstream]_vars

InitSpecFallback ==
    InitFallback /\ IdleRetry /\ IdleNotes /\ IdleSheet /\ IdleJoin
    /\ IdleCycle /\ IdleSplit /\ IdleAudit /\ IdleWrite /\ IdleChunk /\ IdleAttempt
    /\ IdleGroup

SpecFallback == InitSpecFallback /\ [][NextFallback]_vars

----------------------------------------------------------------------------
\* C1: a wrapped operation that raises on every attempt is invoked exactly
\* max_retries + 1 times, inner() sleeps exactly max_retries times (between
\* attempts, never after the last one), and the exception of the last attempt
\* is the one that reaches the caller.  Every attempt so far has failed exactly
\* when lastExc.attempt = calls.
C1_RetryBound ==
    /\ calls <= max_retries + 1
    /\ (calls > 0 /\ lastExc # NoExc /\ lastExc.attempt = calls) =>
          /\ rpc \in {"sleep", "try", "raised"}
          /\ (rpc = "raised") <=> (calls = max_retries + 1)
          /\ rpc = "raised" =>
                /\ sleeps = max_retries
                /\ raisedExc = lastExc
          /\ rpc = "sleep" => sleeps = calls - 1
          /\ rpc = "try" => sleeps = calls
    /\ rpc = "raised" => (lastExc # NoExc /\ lastExc.attempt = calls)

C1_Witness ==
    /\ rpc = "raised"
    /\ max_retries = 3
    /\ calls = 4
    /\ sleeps = 3
    /\ raisedExc = [type |-> "APIError", attempt |-> 4]

\* C2: whenever get_denominations asked a record whether it is valid, the
\* answer was "yes" exactly when now - date < valid; at an age equal to the
\* TTL the answer is "no".
C2_IsValidIff ==
    dvalid # Nothing =>
        (dvalid[1] <=> (dstartNow - dfound[1].date < dfound[1].valid))

C2_Witness ==
    /\ dvalid = Some(FALSE)
    /\ dstartNow - dfound[1].date = dfound[1].valid
    /\ dfound[1].valid = CACHE_VALID

\* The record the call found was valid when it was read.
FoundValid ==
    /\ dfound # Nothing
    /\ dstartNow - dfound[1].date < dfound[1].valid

\* C3: with a valid record for the game the call makes no upstream call and
\* returns the cached payload; with none, or a stale one, it makes exactly one
\* upstream call and, when that call answers, stores the answer under the game
\* with date = now and valid = CACHE_VALID, leaves the other keys alone and
\* returns the answer; a call that follows at once makes no upstream call.
C3_DenomCaching ==
    /\ (dpc = "returned" /\ FoundValid) =>
          /\ upstreamCalls = 0
          /\ dresult = Some(dfound[1].data)
          /\ file = dstartFile
    /\ (dpc = "posting") => (upstreamCalls = 0 /\ ~FoundValid)
    /\ (dpc \in {"returned", "raised"} /\ ~FoundValid /\ dgame # NoneV) =>
          upstreamCalls = 1
    /\ (dpc = "returned" /\ ~FoundValid) =>
          /\ dgame \in DOMAIN file
          /\ model_validate_json(file[dgame]) =
                [date |-> dretAt, valid |-> CACHE_VALID, data |-> dresult[1]]
          /\ \A k \in Games \ {dgame} : DictGet(file, k) = DictGet(dstartFile, k)
    /\ dimmediate => (dpc = "returned" /\ upstreamCalls = 0)

\* A stale record (its TTL has elapsed) is refreshed by one upstream call.
C3_Witness ==
    /\ dpc = "returned"
    /\ dfound # Nothing
    /\ dstartNow - dfound[1].date >= CACHE_VALID
    /\ dfound[1].valid = CACHE_VALID
    /\ upstreamCalls = 1
    /\ dresult # Some(dfound[1].data)

\* C4: a game whose notes have once been in the notes file stays in it, and
\* every call for it that begins afterwards is answered from the file: no
\* upstream call, no sleep.
C4_NotesPermanent ==
    /\ \A g \in wasCached : g \in DOMAIN notesFile
    /\ \A t \in tasks : t.cachedBefore => t.pc = "hit"

\* C5: when the gather has returned, the notes file holds the notes of every
\* game of the gather and every entry it held when the gather began.
C5_GatherKeepsAll ==
    gpc = "returned" =>
        \A g \in ggames \cup DOMAIN gstartFile : g \in DOMAIN notesFile

\* C6: the durable record of every key is the record last set for it through
\* any store instance, and get(key) through any instance returns that record
\* (set touches no other key's durable record).
C6_NoStaleness ==
    /\ \A k \in DOMAIN lastSet :
          /\ k \in DOMAIN file
          /\ model_validate_json(file[k]) = lastSet[k]
    /\ (lastOp.op = "get" /\ lastOp.key \in DOMAIN lastSet) =>
          lastOp.result = Some(lastSet[lastOp.key])

\* The required cells (CHECK, GAME_NAME, DENOMINATION: columns B, E, F) of a
\* row of the worksheet all hold text.
RowIsValid(idx) == \A c \in {"B", "E", "F"} : A1(c, idx) \in DOMAIN cells

RowIsInvalid(idx) == ~RowIsValid(idx)

\* C7: batch_get over N indexes of which k fail validation returns the N - k
\* valid rows in the order of the indexes; every request that flushes the
\* errors holds exactly the k messages, each in the note column (J) at the
\* failing row's own index; one such request has been applied when batch_get
\* returns, so the messages are in the sheet; and batch_get raises only when
\* the service refused a request, never because a row failed validation.
C7_RowValidationIsolation ==
    fn = "batch_get" =>
        LET good == SelectSeq(indexes, RowIsValid)
            bad  == SelectSeq(indexes, RowIsInvalid)
        IN  /\ \A q \in DOMAIN writeReqs :
                  /\ Len(writeReqs[q].batch) = Len(bad)
                  /\ \A p \in DOMAIN bad :
                        writeReqs[q].batch[p].range = A1("J", bad[p])
            /\ spc = "returned" =>
                  /\ Len(result_list) = Len(indexes) - Len(bad)
                  /\ [p \in DOMAIN result_list |-> result_list[p].index] = good
                  /\ Cardinality({q \in DOMAIN writeReqs : writeReqs[q].ok}) = 1
                  /\ writeReqs[Len(writeReqs)].ok
                  /\ \A p \in DOMAIN bad :
                        /\ A1("J", bad[p]) \in DOMAIN cells
                        /\ cells[A1("J", bad[p])] = writeReqs[1].batch[p].value
            /\ spc = "raised" => (raisedExc.type = "APIError" /\ nFailed > 0)
            /\ spc = "flush" => rpc \in {"try", "sleep"}

C7_Witness ==
    /\ fn = "batch_get"
    /\ spc = "returned"
    /\ Len(indexes) = 3
    /\ Len(result_list) = 1
    /\ result_list[1].index = 2
    /\ Len(writeReqs) = 2
    /\ Len(writeReqs[2].batch) = 2

\* The columns of the fields of a class that are marked updatable.
UpdatableCols(c) ==
    {Schema(c)[j].col : j \in {k \in 1..Len(Schema(c)) : Schema(c)[k].is_update}}

\* Every batch_update request holds exactly one entry per (row, updatable
\* field), at the field's column and the row's index, and no other entry; an
\* attempt sends at most one request, and none when the list is empty; when
\* the call returns for a list that is not empty, one request was applied.
BatchUpdateWrites ==
    /\ \A q \in DOMAIN writeReqs :
          LET b == writeReqs[q].batch
          IN  /\ \A p \in DOMAIN rows : \A c \in UpdatableCols(cls) :
                    Cardinality({j \in DOMAIN b : b[j].range = A1(c, rows[p].index)}) = 1
              /\ \A j \in DOMAIN b : \E p \in DOMAIN rows : \E c \in UpdatableCols(cls) :
                    b[j].range = A1(c, rows[p].index)
    /\ Len(writeReqs) <= calls
    /\ rows = << >> => writeReqs = << >>
    /\ (spc = "returned" /\ rows # << >>) =>
          /\ Cardinality({q \in DOMAIN writeReqs : writeReqs[q].ok}) = 1
          /\ writeReqs[Len(writeReqs)].ok

\* C8: batch_update writes exactly one cell per (row, updatable field) at
\* column(field) + row.index and no cell of another field, all in a single
\* batch request; with an empty list it issues no call to the sheet at all,
\* neither a worksheet lookup nor a read nor a write.
C8_NoCallWhenEmpty ==
    fn = "batch_update" =>
        /\ BatchUpdateWrites
        /\ rows = << >> => (nLookups = 0 /\ nReads = 0 /\ writeReqs = << >>)

\* C9: with no note field declared in the class, the note functions raise
\* the schema error at the first lookup: one attempt, no sleep, no retry,
\* nothing sent to the sheet.
C9_SchemaErrorNotRetried ==
    (fn \in {"update_note_message", "batch_update_note_message"}
        /\ \A j \in 1..Len(Schema(cls)) : ~Schema(cls)[j].is_note) =>
        /\ writeReqs = << >>
        /\ nLookups = 0
        /\ sleeps = 0
        /\ rpc # "sleep"
        /\ calls <= 1
        /\ calls = 1 => (spc = "raised" /\ raisedExc.type = "SheetError")

\* t holds sub as a run of consecutive pieces.
Contains(t, sub) ==
    \E k \in 1..(Len(t) - Len(sub) + 1) : SubSeq(t, k, k + Len(sub) - 1) = sub

\* C10: a row whose game is in the catalog and whose denomination is in that
\* game's map gets the text of the denomination's value as price, the game's
\* notes and the game's currency; any other row gets an empty price and a
\* note that names its game and its denomination in the "invalid" template.
C10_PriceJoin ==
    jpc = "done" =>
        LET g == row_model.f["GAME_NAME"]
            d == row_model.f["DENOMINATION"]
        IN  IF g \in DOMAIN game_dict /\ d \in DOMAIN game_dict[g].denominations
               THEN /\ priced.f["PRICE"] = FloatStr(game_dict[g].denominations[d])
                    /\ priced.f["GAME_NOTE"] = game_dict[g].notes
                    /\ priced.f["CURRENCY"] = game_dict[g].currency
               ELSE /\ priced.f["PRICE"] = << >>
                    /\ Contains(priced.f["NOTE"],
                                <<" GAME_NAME: ">> \o g \o <<" hoặc DENOMINATION: ">>
                                    \o d \o <<" không hợp lệ">>)

\* The example of the specification: G, "10" -> 5.0, notes "n".
C10_Witness ==
    /\ jpc = "done"
    /\ row_model.f["GAME_NAME"] = <<"G">>
    /\ row_model.f["DENOMINATION"] = <<"10">>
    /\ priced.f["PRICE"] = <<"5", ".", "0">>
    /\ priced.f["GAME_NOTE"] = <<"n">>
    /\ priced.f["CURRENCY"] = <<"SGD">>

\* C11: an UpstreamError of the denomination fetch of one game, a non-2xx
\* answer or a timeout alike, never aborts the cycle: no cycle ends at the
\* denomination fetch; the failing game gets the empty map, the games after
\* it are still fetched, and the game is in the catalog that get_game_dict
\* returns.
C11_DenominationFailureDowngraded ==
    /\ prev.at # "denoms"
    /\ \A f \in failedAt :
          f.step = "denoms" =>
              /\ denominations[f.pos] = EmptyDict
              /\ fpc \in {"notes", "done"} => Len(denominations) = Len(games)
              /\ fpc = "done" =>
                    /\ games[f.pos] \in DOMAIN snapshot
                    /\ snapshot[games[f.pos]].denominations = EmptyDict

\* C12: an UpstreamError while the games are listed or while the notes are
\* fetched is not downgraded: no cycle goes on after one; the cycle it ends
\* has entered no state after FetchCatalog, has written no audit row, has
\* discovered no run rows and has attempted no chunk; the driver has logged
\* the exception and the next cycle has started.
C12_ListingOrNotesFailureAborts ==
    /\ \A f \in failedAt : f.step = "denoms"
    /\ (\E f \in prev.failedAt : f.step \in {"list", "notes"}) =>
          /\ prev.exc \in UpstreamExcTypes
          /\ prev.at \in {"list", "notes"}
          /\ prev.trace = <<"FetchCatalog">>
          /\ prev.audits = 0
          /\ prev.discoveries = 0
          /\ prev.chunksDone = 0
          /\ prev.calls = 0
          /\ prev.logged
          /\ ppc # "crashed"
          /\ trace[1] = "FetchCatalog"

C12_Witness ==
    /\ prev.at = "notes"
    /\ prev.exc = "TimeoutException"
    /\ prev.failedAt = {Failure("notes", 0)}
    /\ ppc = "AuditAppend"

\* C13: the supervisor loop never ends: whatever a cycle raises, a new cycle
\* starts again and again at the listing of the games (every external call
\* returning or raising).
C13_CycleAlwaysRestarts == []<>(ppc = "FetchCatalog" /\ fpc = "list")

C13_Witness ==
    /\ prev.exc = "ValueError"
    /\ prev.logged
    /\ ppc = "FetchCatalog"
    /\ fpc = "list"

\* C14: within a cycle the states are entered in the order FetchCatalog,
\* AuditAppend, DiscoverRunRows, ProcessBatches, ReadRelaxCell, Sleep, each
\* once and each only when the one before it has completed (the catalog is
\* built, the audit written, the run rows discovered, every chunk processed,
\* the relax cell read); a cycle that raises nothing has gone through all six
\* before the next FetchCatalog.
C14_StateOrder ==
    /\ ppc # "crashed" =>
          /\ Len(trace) \in 1..Len(States)
          /\ trace = SubSeq(States, 1, Len(trace))
          /\ ppc = trace[Len(trace)]
          /\ (Len(trace) >= 2) <=> (fpc = "done")
          /\ audits = (IF Len(trace) >= 3 THEN 1 ELSE 0)
          /\ discoveries = (IF Len(trace) >= 4 THEN 1 ELSE 0)
          /\ Len(trace) < 4 => (chunks = << >> /\ chunksDone = 0)
          /\ Len(trace) >= 5 => chunks = << >>
          /\ (Len(trace) = 6) <=> (relax # Nothing)
          /\ (Len(trace) = 6) <=> (delay # Nothing)
    /\ (prev.exc = None /\ prev # NoCycle) =>
          /\ prev.trace = States
          /\ prev.audits = 1
          /\ prev.discoveries = 1
          /\ prev.chunksLeft = 0
          /\ prev.delay # Nothing

C14_Witness ==
    /\ prev.exc = None
    /\ prev.trace = States
    /\ prev.chunksDone = 2
    /\ ppc = "DiscoverRunRows"

\* The delay the relax cell asks for: the default when it is blank or does
\* not parse as a number, its value otherwise.
RelaxDelay(c) ==
    IF c.kind = "none" \/ Float(c) = Nothing THEN DEFAULT_RELAX_TIME
                                             ELSE Float(c)[1]

\* C15: once the relax cell has been read the cycle always gets a delay and
\* completes through Sleep: the default when the cell is blank or does not
\* parse as a number, the parsed value otherwise.
C15_RelaxAlwaysYieldsDelay ==
    /\ ppc = "Sleep" => delay = Some(RelaxDelay(relax[1]))
    /\ prev.relax # Nothing =>
          /\ prev.exc = None
          /\ prev.trace = States
          /\ prev.delay = Some(RelaxDelay(prev.relax[1]))

\* C17: a chunk whose processing raises on every attempt is attempted exactly
\* 6 times with one sleep between consecutive attempts (5 sleeps); the
\* exception then ends the cycle in ProcessBatches with that chunk and the
\* ones after it unprocessed, the driver logs it and the next cycle starts.
C17_ChunkRetryExhaustion ==
    /\ ppc = "ProcessBatches" =>
          /\ calls <= 6
          /\ rpc = "sleep" => calls = sleeps + 1
          /\ rpc = "try" => calls = sleeps
    /\ prev.at = "chunk" =>
          /\ prev.calls = 6
          /\ prev.sleeps = 5
          /\ prev.chunksLeft >= 1
          /\ prev.trace = SubSeq(States, 1, 4)
          /\ prev.relax = Nothing
          /\ prev.logged
          /\ ppc # "crashed"
          /\ trace[1] = "FetchCatalog"

C17_Witness ==
    /\ prev.at = "chunk"
    /\ prev.exc = "APIError"
    /\ prev.calls = 6
    /\ prev.chunksDone = 0
    /\ prev.chunksLeft = 2
    /\ ppc = "FetchCatalog"

\* The concatenation of the elements of a sequence of sequences, in order.
RECURSIVE Concat(_)
Concat(ss) == IF ss = << >> THEN << >> ELSE Head(ss) \o Concat(Tail(ss))

\* C18: the chunks split_list returns concatenate, in order, to the list;
\* every chunk but the last has exactly chunk_size elements, the last has
\* between 1 and chunk_size; the empty list gives no chunk.
C18_SplitList ==
    slpc = "done" =>
        /\ Concat(split_out) = split_lst
        /\ \A k \in 1..(Len(split_out) - 1) : Len(split_out[k]) = split_size
        /\ split_out # << >> =>
              Len(split_out[Len(split_out)]) \in 1..split_size
        /\ split_lst = << >> => split_out = << >>

\* The example of the specification: [1..7] by 3.
C18_Witness ==
    /\ slpc = "done"
    /\ split_lst = <<1, 2, 3, 4, 5, 6, 7>>
    /\ split_size = 3
    /\ split_out = <<(<<1, 2, 3>>), (<<4, 5, 6>>), (<<7>>)>>

\* The number of (game, denomination) pairs of the first k games of a catalog.
RECURSIVE PairsBefore(_, _)
PairsBefore(gd, k) ==
    IF k = 0 THEN 0 ELSE PairsBefore(gd, k - 1) + Len(gd[k].items)

\* The s-th (game, denomination) pair of a catalog in iteration order.
PairAt(gd, s) ==
    LET k == CHOOSE k \in 1..Len(gd) :
                 PairsBefore(gd, k - 1) < s /\ s <= PairsBefore(gd, k)
    IN  [game |-> gd[k].game, item |-> gd[k].items[s - PairsBefore(gd, k - 1)]]

\* The value a batch holds for a cell (there is exactly one entry for it).
BatchValue(batch, addr) ==
    batch[CHOOSE j \in 1..Len(batch) : batch[j].range = addr].value

\* The entries of a batch outside the timestamp column.
Content(batch) ==
    {batch[j] : j \in {q \in 1..Len(batch) : Head(batch[q].range) # "E"}}

\* C19: update_sheet_data writes one audit row per (game, denomination) pair
\* of the catalog, in iteration order: the s-th pair at sheet row
\* SHEET_DATA_START_INDEX + s - 1 with sequence number s in column A, the game
\* in B, the denomination in C and the price in D, and nothing outside these
\* rows; so two calls with the same catalog write the same sequence, game,
\* denomination and price content to the same cells, whatever the sheet held.
C19_AuditRows ==
    auditRuns > 0 =>
        LET n == PairsBefore(audit_dict, Len(audit_dict))
            rowOf(s) == SHEET_DATA_START_INDEX + s - 1
        IN  /\ Len(data_rows) = n
            /\ Len(auditBatch) = 5 * n
            /\ \A s \in 1..n :
                  /\ data_rows[s].index = rowOf(s)
                  /\ BatchValue(auditBatch, A1("A", rowOf(s))) = IntStr(s)
                  /\ BatchValue(auditBatch, A1("B", rowOf(s))) = PairAt(audit_dict, s).game
                  /\ BatchValue(auditBatch, A1("C", rowOf(s))) = PairAt(audit_dict, s).item.key
                  /\ BatchValue(auditBatch, A1("D", rowOf(s)))
                        = FloatStr(PairAt(audit_dict, s).item.value)
                  /\ \A c \in {"A", "B", "C", "D", "E"} :
                        Cardinality({j \in 1..Len(auditBatch) :
                                        auditBatch[j].range = A1(c, rowOf(s))}) = 1
                  /\ auditOk =>
                        \A c \in {"A", "B", "C", "D"} :
                            dataCells[A1(c, rowOf(s))]
                                = BatchValue(auditBatch, A1(c, rowOf(s)))
            /\ (auditRuns > 1 /\ auditBefore.game_dict = audit_dict) =>
                  Content(auditBefore.batch) = Content(auditBatch)

\* Two calls with the same catalog of three pairs, the second on a sheet that
\* already holds rows.
C19_Witness ==
    /\ auditRuns = 2
    /\ auditOk
    /\ auditBefore.game_dict = audit_dict
    /\ Len(audit_dict) = 2
    /\ Len(data_rows) = 3
    /\ dataCells[<<"A", "5">>] = <<"3">>
    /\ dataCells[<<"D", "3">>] = <<"5", ".", "0">>

\* C16: a row that batch_get returned and whose FILL_IN is not the run marker
\* is written back neither by the static batch update (no entry of a
\* RowModel.batch_update request addresses one of its cells) nor by dynamic
\* resolution (find_cell_to_update resolves no address for it).
C16_WriteBackOnlyRunRows ==
    \A k \in 1..Len(row_models) :
        (wpc # "rows" /\ ~IsRun(row_models[k])) =>
            /\ \A q \in 1..Len(staticReqs) : \A j \in 1..Len(staticReqs[q]) :
                  staticReqs[q][j].range
                      \notin {A1(c, row_models[k].index) : c \in UpdatableCols("RowModel")}
            /\ IntStr(row_models[k].index) \notin DOMAIN mapping_dict

\* The rows of the code column that hold a row's code, both trimmed.
CodeMatches(rm) ==
    {r \in 1..Len(codes_grid) :
        codes_grid[r] # << >> /\ Strip(codes_grid[r][1]) = Strip(rm.f["CODE"])}

\* C20: once find_cell_to_update has returned, a routed row whose code is in
\* the scanned column is resolved to the note column at the last (lowest)
\* matching row of the column, however many cells match; a row without a match
\* is not resolved; every key of the mapping is the index of such a row and
\* has that one address.
C20_LastMatchWins ==
    wpc \in {"price", "static", "returned"} =>
        /\ \A k \in 1..Len(to_be_updated_row_models) :
              LET rm == to_be_updated_row_models[k]
                  last == CHOOSE r \in CodeMatches(rm) :
                              \A x \in CodeMatches(rm) : x <= r
              IN  Resolvable(rm) =>
                      IF CodeMatches(rm) = {}
                         THEN IntStr(rm.index) \notin DOMAIN mapping_dict
                         ELSE /\ IntStr(rm.index) \in DOMAIN mapping_dict
                              /\ mapping_dict[IntStr(rm.index)]
                                    = rm.f["COL_NOTE"] \o IntStr(last)
        /\ \A key \in DOMAIN mapping_dict :
              \E k \in 1..Len(to_be_updated_row_models) :
                  /\ IntStr(to_be_updated_row_models[k].index) = key
                  /\ Resolvable(to_be_updated_row_models[k])

\* Three cells, the first and the third hold the code (the third padded).
C20_Witness ==
    /\ wpc = "returned"
    /\ codes_grid = <<(<<(<<"c">>)>>), (<<(<<"d">>)>>), (<<(<<"c", " ">>)>>)>>
    /\ Len(to_be_updated_row_models) = 1
    /\ to_be_updated_row_models[1].f["CODE"] = <<"c">>
    /\ mapping_dict = (<<"2">> :> <<"C", "3">>)
    /\ dynReqs = <<(<<[range |-> <<"C", "3">>, value |-> <<"5", ".", "0">>]>>)>>

\* The rows of the chunk that are to get a dynamic write: flag equal to the run
\* marker, every routing field present, code found in the code column.
DynamicEligible(rm) ==
    /\ rm.f["FILL_IN"] = CheckTypeRun
    /\ \A n \in {"ID_SHEET", "SHEET", "COL_NOTE", "CODE", "COL_CODE"} :
           rm.f[n] # NoneV /\ rm.f[n] # << >>
    /\ CodeMatches(rm) # {}

\* The dynamic write of an eligible row: its price at the note column of the
\* last matching row of the code column.
DynamicWrite(rm) ==
    [range |-> rm.f["COL_NOTE"]
                  \o IntStr(CHOOSE r \in CodeMatches(rm) :
                                \A x \in CodeMatches(rm) : x <= r),
     value |-> IF rm.f["PRICE"] = NoneV THEN << >> ELSE rm.f["PRICE"]]

\* C21: when the sheet answers, the dynamic writes of a chunk are exactly the
\* writes of its eligible rows, one per eligible row in row order: a row whose
\* flag is not the run marker, that lacks a routing field or whose code is not
\* in the code column gets none, takes no write away from the other rows, and
\* find_cell_to_update raises nothing of its own (no KeyError).
C21_DynamicWriteIff ==
    /\ wpc # "keyerror"
    /\ wpc \in {"static", "returned"} =>
          LET elig == SelectSeq(row_models, DynamicEligible)
              sent == IF dynReqs = << >> THEN << >> ELSE dynReqs[Len(dynReqs)]
          IN  /\ Len(dynReqs) <= 1
              /\ sent = [k \in 1..Len(elig) |-> DynamicWrite(elig[k])]

\* A chunk of two run rows: row 2 has no code, row 3 is routed and matched.
C21_Witness ==
    /\ wpc = "returned"
    /\ Len(row_models) = 2
    /\ row_models[1].f["FILL_IN"] = CheckTypeRun
    /\ row_models[1].f["ID_SHEET"] # NoneV
    /\ row_models[1].f["CODE"] = NoneV
    /\ DynamicEligible(row_models[2])
    /\ dynReqs = << <<DynamicWrite(row_models[2])>> >>

\* The calls of one attempt of batch_process, in the order of the code.
ChunkOrder == <<"read", "flush", "dynamic", "static", "pace">>

\* C22: the chunks of a cycle are the slices of the run rows in ascending row
\* order and are processed one at a time in that order: the finished chunks
\* followed by the unfinished ones are always split_list of the ascending run
\* rows; within an attempt on a chunk the calls are a prefix of batch read,
\* note flush, dynamic writes, static batch update, pacing delay (so the flush
\* precedes the batch update); and a batch read starts only at the beginning,
\* after a retry sleep of the same chunk, or after the pacing delay of the
\* chunk before.
C22_ChunkOrder ==
    /\ [](LET run == get_run_indexes(check_col, 1)
          IN  /\ \A k \in 1..(Len(run) - 1) : run[k] < run[k + 1]
              /\ bp_finished \o bp_todo = split_list(run, PROCESS_BATCH_SIZE)
              /\ Len(bp_events) <= Len(ChunkOrder)
              /\ bp_events = SubSeq(ChunkOrder, 1, Len(bp_events))
              /\ (bp_events # << >> /\ bp_events[Len(bp_events)] = "pace")
                    <=> (bp_finished # << >> /\ bpc \in {"read", "done"} /\ bp_i = 0))
    /\ [][bp_events' = <<"read">> =>
             \/ bp_events = << >>
             \/ bp_events = ChunkOrder /\ bp_finished' = bp_finished
                                       /\ bp_finished # << >>]_vars

\* The second chunk, at its second attempt, has reached the pacing delay.
C22_Witness ==
    /\ Len(bp_finished) = 1
    /\ bp_todo = <<(<<3>>)>>
    /\ bp_finished = <<(<<1, 2>>)>>
    /\ bp_i = 1
    /\ bpc = "pace"
    /\ bp_events = <<"read", "flush", "dynamic", "static">>

NonEmptyCells(sheet) == [a \in {x \in DOMAIN sheet : sheet[x] # << >>} |-> sheet[a]]

\* Both sheets after batch_process, had its first attempt returned.
FirstAttempt == AttemptSheets(at_start.main, at_start.target, at_indexes, "returned")

\* The batches an attempt on the present sheets sends, applied twice, leave
\* what they leave applied once.
SameBatchTwice ==
    LET rms == PriceAll(WriteCatalog, ReadRows(at_main, at_indexes))
        upd == SelectSeq(rms, IsRun)
        dyn == PricePayloads(upd, find_cell_to_update(upd, ColumnValues(at_target, <<"A">>)))
        sta == UpdateBatch("RowModel", rms)
    IN  /\ ApplyBatch(ApplyBatch(at_target, dyn), dyn) = ApplyBatch(at_target, dyn)
        /\ ApplyBatch(ApplyBatch(at_main, sta), sta) = ApplyBatch(at_main, sta)

\* batch_process has returned and left in both sheets the cells its first
\* attempt alone would have left.
SameAsFirstAttempt ==
    apc = "returned" =>
        /\ NonEmptyCells(at_main) = NonEmptyCells(FirstAttempt.main)
        /\ NonEmptyCells(at_target) = NonEmptyCells(FirstAttempt.target)

\* No run row of the chunk is routed to write into the code column it is
\* looked up in.
NotesOffCodeColumn ==
    LET rms == ReadRows(at_start.main, at_indexes)
    IN  \A k \in 1..Len(rms) :
            (IsRun(rms[k]) /\ Resolvable(rms[k])) =>
                rms[k].f["COL_NOTE"] # rms[k].f["COL_CODE"]

\* C23: a batch applied twice leaves the sheet as applied once,
\* and a chunk that succeeds on a retry, whatever its earlier attempts wrote,
\* leaves the cell values a first-attempt success leaves.
C23_RetryConverges == SameBatchTwice /\ SameAsFirstAttempt

\* C23, off the code column: a batch applied twice leaves the sheet as applied once, and
\* a chunk none of whose run rows writes into its own code column leaves, when
\* it succeeds on a retry, the cell values a first-attempt success leaves.
C23_RetryConvergesOffCodeColumn ==
    /\ SameBatchTwice
    /\ NotesOffCodeColumn => SameAsFirstAttempt

\* An attempt wrote to the target sheet and raised; the retry returned.
C23_Witness ==
    /\ apc = "returned"
    /\ at_try >= 1
    /\ at_applied
    /\ NotesOffCodeColumn
    /\ at_target # at_start.target
    /\ at_main # at_start.main

\* C24: in one call of find_cell_to_update every worksheet.batch_get call
\* names each code range once, whatever the number of rows that refer to it,
\* and no target sheet is read twice; when the reads are done, there was one
\* call per target sheet of the requested rows.
C24_EachCodeColumnOnce ==
    /\ \A c \in 1..Len(batchGets) :
          \A x, y \in 1..Len(batchGets[c].ranges) :
              batchGets[c].ranges[x] = batchGets[c].ranges[y] => x = y
    /\ \A c, e \in 1..Len(batchGets) :
          (batchGets[c].sheet_id = batchGets[e].sheet_id
             /\ batchGets[c].sheet_name = batchGets[e].sheet_name) => c = e
    /\ fcpc = "resolve" =>
          {<<batchGets[c].sheet_id, batchGets[c].sheet_name>> : c \in 1..Len(batchGets)}
             = {<<grp_rows[k].f["ID_SHEET"], grp_rows[k].f["SHEET"]>> :
                   k \in {q \in 1..Len(grp_rows) : Requested(grp_rows[q])}}

\* C25: a get_denominations call that raised found no valid record, called
\* the vendor once and left the store file as it was, the record of the game
\* being the one the call found; the call for the same game that follows
\* posts again.  A get_elitedias_game_fields coroutine whose POST fails
\* leaves the notes file as it is and raises from the POST, without the
\* sleep; the coroutine for the same game in the next gather posts again.
C25_FailedCallKeepsCaches ==
    /\ [](dpc = "raised" =>
             /\ ~CacheHit(dfound, dstartNow)
             /\ upstreamCalls = 1
             /\ file = dstartFile
             /\ MKVGet(load_data(file), dgame) = dfound)
    /\ [][(dpc = "posting" /\ dpc' = "raised") =>
             (file' = file /\ data' = data /\ fileExists' = fileExists)]_vars
    /\ [][(dpc = "raised" /\ dpc' # "raised" /\ dgame' = dgame) => dpc' = "posting"]_vars
    /\ [][\A u \in tasks' :
             (u.pc = "raised" /\ u \notin tasks) =>
                 /\ [u EXCEPT !.pc = "posting"] \in tasks
                 /\ notesFile' = notesFile]_vars
    /\ [][cycle' = cycle + 1 =>
             \A t \in tasks :
                 (t.pc = "raised" /\ t.gen = cycle /\ t.game \in ggames') =>
                     \E u \in tasks' :
                         u.gen = cycle' /\ u.game = t.game /\ u.pc = "posting"]_vars

\* The column of a RowModel field.
RowFieldCol(name) ==
    LET m == mapping_fields("RowModel")
    IN  m[CHOOSE j \in 1..Len(m) : m[j].name = name].col

\* C26: a game whose denomination fetch failed in the cycle has the empty map
\* in the catalog, whether or not the store file held a record of it; once
\* the chunk is written, every row of such a game has its price cleared and
\* the invalid game/denomination note, and the work sheet holds the empty
\* price and that note in the row's PRICE and NOTE cells.  No row is priced
\* in a cycle that the failure aborts.
C26_FailedFetchIsNoMatch ==
    /\ fbpc \in {"read", "price", "static", "written", "raised"} =>
          \A g \in fb_failed : fb_dict[g].denominations = EmptyDict
    /\ fbpc = "written" =>
          \A k \in 1..Len(fb_rows) :
              fb_rows[k].f["GAME_NAME"] \in fb_failed =>
                  LET rm   == fb_rows[k]
                      note == InvalidNote(rm.f["GAME_NAME"], rm.f["DENOMINATION"])
                  IN  /\ rm.f["PRICE"] = << >>
                      /\ rm.f["NOTE"] = note
                      /\ fb_main[A1(RowFieldCol("PRICE"), rm.index)] = << >>
                      /\ fb_main[A1(RowFieldCol("NOTE"), rm.index)] = note
    /\ fbpc = "aborted" => (fb_rows = << >> /\ fb_dict = EmptyDict)

\* The fetch of G failed although the store file held a (stale) record of G
\* with denomination 10; a row of G with a price from an earlier cycle has
\* been written back.
C26_Witness ==
    /\ fbpc = "written"
    /\ <<"G">> \in fb_stale
    /\ \E k \in 1..Len(fb_rows) :
          /\ fb_rows[k].f["GAME_NAME"] = <<"G">>
          /\ fb_rows[k].f["DENOMINATION"] = <<"10">>
          /\ fb_rows[k].index = 2
          /\ fb_main[A1(RowFieldCol("PRICE"), 2)] = << >>
    /\ \E k \in 1..Len(fb_rows) :
          /\ fb_rows[k].f["GAME_NAME"] = <<"H">>
          /\ fb_rows[k].f["PRICE"] # << >>

\* The states the last cycle entered.
PrevEntered == {prev.trace[k] : k \in 1..Len(prev.trace)}

====
